---- MODULE Spec2Model ----
(***************************************************************************)
(* Task-management web application (src/unnamed/part_000 is the earlier    *)
(* build, src/index.tsx the later one).  The module models                 *)
(*   - the derived views: the daily view of part_000 (displayedTasks),     *)
(*     the urgency classifier (getUrgencyClass) and the apartment grouping *)
(*     of index.tsx;                                                       *)
(*   - the record mutations that the handlers of App issue against the     *)
(*     remote "tasks" collection, and the snapshot listener that feeds     *)
(*     the locally held task state.                                        *)
(* Date keys ("YYYY-MM-DD" strings, compared as strings by the code) are   *)
(* day numbers: zero padded ISO keys are ordered as their days are.        *)
(* Instants (JavaScript Date values) are hours since the start of day 0    *)
(* in UTC.  A falsy dueDate (undefined, null or '') is 0, a falsy          *)
(* apartment is "".                                                        *)
(***************************************************************************)
EXTENDS Integers, Sequences, FiniteSets, TLC

VARIABLES
    now,             \* the wall clock (new Date()), an instant
    tasks,           \* the task list a view is computed from
    displayDate,     \* part_000 App.displayDate, an instant
    displayedTasks,  \* part_000 App.displayedTasks (useMemo)
    zone,            \* the time zone of the browser
    dueDate,         \* the dueDate of the task a TaskItem renders
    urgencyClass,    \* TaskItem.urgencyClass, computed at every render
    role,            \* user.role of the session: "admin" or "user"
    taskFilter,      \* AdminDashboard.taskFilter / App.userTaskFilter
    apartmentTasks,  \* the apartment buckets: apartment name -> task list
    generalTasks,    \* the general bucket
    variant,         \* the build the session runs: "part_000" or "index"
    store,           \* the observed document of the remote "tasks" collection
    allTasks,        \* the session's copy of that document (allTasks / tasks)
    breakdown,       \* where the session's handleBreakdownTask call stands
    ledger,          \* the documents of the remote "transactions" collection
    transactions,    \* App.transactions, the held transaction list
    balance,         \* App.balance
    viewingUser,     \* App.viewingUser, the user the admin looks at
    viewingUserTasks,\* AdminDashboard.viewingUserTasks
    globalStats,     \* AdminDashboard.globalStats (useMemo)
    userStats,       \* part_000 AdminDashboard.userStats (useMemo)
    statWidget,      \* the numbers the stat widgets of AdminDashboard present
    strayCalls,      \* remote calls issued for a task id the session did not hold
    uploadingPhotoId,\* App.uploadingPhotoId: a task id, or NoUpload for null
    photo,           \* the photo field of each task document
    uploads,         \* where the handlePhotoUpload call of each task stands
    isSuggesting,    \* part_000 App.isSuggesting
    suggestions,     \* part_000 App.suggestions
    modalState,      \* App.modalState.type, "" for null
    suggestCall,     \* where the handleGetSuggestions call stands
    userName,        \* index.tsx user.name of the session
    taskToEdit,      \* modalState.data of the task modal: "new", "held" or ""
    taskWrites,      \* the writes to the tasks collection the session issued
    remoteTask,      \* a task document that several sessions write to
    sessionTask,     \* the copy of that document each session holds
    lastToggled,     \* the subtask each session toggled since its last snapshot
    heldTasks,       \* the tasks a non-admin session holds (index tasks, part_000 allTasks)
    shownTasks,      \* the tasks the dashboard of that session lists
    fcmTokens,       \* the fcm_tokens document of one user
    registrations,   \* where the requestNotificationPermission call of each device stands
    sendRuns,        \* where each run of sendNotificationOnNewTask stands
    registeredTokens,\* the tokens whose registration has been written
    failedTokens     \* the tokens a send failed for as invalid or not registered

vars == <<now, tasks, displayDate, displayedTasks, zone, dueDate, urgencyClass,
          role, taskFilter, apartmentTasks, generalTasks,
          variant, store, allTasks, breakdown,
          ledger, transactions, balance,
          viewingUser, viewingUserTasks, globalStats, userStats, statWidget,
          strayCalls,
          uploadingPhotoId, photo, uploads,
          isSuggesting, suggestions, modalState, suggestCall,
          userName, taskToEdit, taskWrites,
          remoteTask, sessionTask, lastToggled,
          heldTasks, shownTasks,
          fcmTokens, registrations, sendRuns, registeredTokens, failedTokens>>

dailyVars == <<tasks, displayDate, displayedTasks>>
urgencyVars == <<zone, dueDate, urgencyClass>>
groupVars == <<role, taskFilter, apartmentTasks, generalTasks>>
mutationVars == <<variant, store, allTasks, breakdown, strayCalls>>
financeVars == <<ledger, transactions, balance>>
statsVars == <<viewingUser, viewingUserTasks, globalStats, userStats, statWidget>>
otherVars == <<financeVars, statsVars>>
uploadVars == <<uploadingPhotoId, photo, uploads>>
suggestVars == <<isSuggesting, suggestions, modalState, suggestCall>>
permissionVars == <<userName, taskToEdit, taskWrites>>
sessionVars == <<remoteTask, sessionTask, lastToggled>>
ownVars == <<heldTasks, shownTasks>>
tokenVars == <<fcmTokens, registrations, sendRuns, registeredTokens, failedTokens>>
laterVars == <<uploadVars, suggestVars, permissionVars, sessionVars, ownVars, tokenVars>>
viewVars == <<now, dailyVars, urgencyVars, groupVars, otherVars, laterVars>>
earlierVars == <<now, dailyVars, urgencyVars, groupVars, mutationVars, otherVars>>
notUploadVars == <<earlierVars, suggestVars, permissionVars, sessionVars, ownVars, tokenVars>>
notSuggestVars == <<earlierVars, uploadVars, permissionVars, sessionVars, ownVars, tokenVars>>
notPermissionVars == <<earlierVars, uploadVars, suggestCall, sessionVars, ownVars, tokenVars>>
notSessionVars == <<dailyVars, urgencyVars, groupVars, mutationVars, otherVars,
                    uploadVars, suggestVars, permissionVars, ownVars, tokenVars>>
notOwnVars == <<now, displayDate, displayedTasks, urgencyVars, role, apartmentTasks,
                generalTasks, mutationVars, otherVars, uploadVars, suggestVars,
                permissionVars, sessionVars, tokenVars>>
notTokenVars == <<earlierVars, uploadVars, suggestVars, permissionVars, sessionVars,
                  ownVars>>

\* Bounds of the model.
MaxDay == 3          \* date keys range over 1..MaxDay
MaxTasks == 2        \* longest task list drawn for a view
MaxUrgencyDay == 11  \* the urgency classifier runs over days 1..MaxUrgencyDay

HoursPerDay == 24

Days == 1..MaxDay

SeqsUpTo(S, n) == UNION {[1..k -> S] : k \in 0..n}

(***************************************************************************)
(* Date helpers                                                            *)
(***************************************************************************)
\* toDateString: date.toISOString().split('T')[0], the UTC calendar day.
toDateString(date) == date \div HoursPerDay

\* Time zones: local time is UTC + base hours; when shift is not 0 the
\* clocks are moved by shift hours at 02:00 local time of day `at`.
NoZoneChange == [base |-> 0, shift |-> 0, at |-> 0]

Zones ==
    {[base |-> b, shift |-> 0, at |-> 0] : b \in {-1, 1}}
    \cup [base : {-1, 1}, shift : {-1, 1}, at : 1..MaxUrgencyDay]

\* The UTC offset in force at instant t.
OffsetAt(z, t) ==
    IF z.shift # 0 /\ t >= HoursPerDay * z.at + 2 - z.base THEN z.base + z.shift
    ELSE z.base

\* The local calendar day of instant t (Date.getDate and friends).
LocalDayOf(z, t) == (t + OffsetAt(z, t)) \div HoursPerDay

\* The instant of local midnight of day k: new Date(key + 'T00:00:00'),
\* and date.setHours(0, 0, 0, 0) for a date of local day k.
LocalMidnight(z, k) ==
    HoursPerDay * k - (IF z.shift # 0 /\ k > z.at THEN z.base + z.shift ELSE z.base)

\* Math.ceil(a / b) for b > 0
Ceil(a, b) == -((-a) \div b)

(***************************************************************************)
(* getUrgencyClass                                                         *)
(***************************************************************************)
DiffDays(due, currentDate, z) ==
    LET today == LocalMidnight(z, LocalDayOf(z, currentDate))
        dueAt == LocalMidnight(z, due)
        diffTime == dueAt - today
    IN  Ceil(diffTime, HoursPerDay)

\* Mutant of getUrgencyClass: a task due tomorrow is not yet urgent.
getUrgencyClass_TomorrowNotHigh(due, currentDate, z) ==
    IF due = 0 THEN ""
    ELSE LET diffDays == DiffDays(due, currentDate, z)
         IN  IF diffDays < 1 THEN "urgency-high"
             ELSE IF diffDays <= 3 THEN "urgency-medium"
             ELSE IF diffDays > 5 THEN "urgency-low"
             ELSE ""

\* Mutant of getUrgencyClass: the low tier starts at five days.
getUrgencyClass_LowFromFive(due, currentDate, z) ==
    IF due = 0 THEN ""
    ELSE LET diffDays == DiffDays(due, currentDate, z)
         IN  IF diffDays <= 1 THEN "urgency-high"
             ELSE IF diffDays <= 3 THEN "urgency-medium"
             ELSE IF diffDays >= 5 THEN "urgency-low"
             ELSE ""

getUrgencyClass(due, currentDate, z) ==
    IF due = 0 THEN ""
    ELSE LET diffDays == DiffDays(due, currentDate, z)
         IN  IF diffDays <= 1 THEN "urgency-high"
             ELSE IF diffDays <= 3 THEN "urgency-medium"
             ELSE IF diffDays > 5 THEN "urgency-low"
             ELSE ""

(***************************************************************************)
(* Array.prototype.filter and Array.prototype.sort (stable), the latter    *)
(* for the comparators the code uses.                                      *)
(***************************************************************************)
ImportantRank(t) == IF t.important THEN 1 ELSE 0

\* Mutant of CompareImportant: the operands exchanged.
CompareImportant_Exchanged(a, b) == ImportantRank(a) - ImportantRank(b)

\* (a, b) => (b.important ? 1 : 0) - (a.important ? 1 : 0)
CompareImportant(a, b) == ImportantRank(b) - ImportantRank(a)

\* Insert x behind every element of the sorted sequence s that does not
\* have to follow it (compare(e, x) <= 0), which keeps equal elements in
\* their input order.
RECURSIVE InsertByImportant(_, _)
InsertByImportant(s, x) ==
    IF s = <<>> THEN <<x>>
    ELSE IF CompareImportant(s[Len(s)], x) <= 0 THEN Append(s, x)
    ELSE Append(InsertByImportant(SubSeq(s, 1, Len(s) - 1), x), s[Len(s)])

RECURSIVE SortByImportant(_)
SortByImportant(s) ==
    IF s = <<>> THEN <<>>
    ELSE InsertByImportant(SortByImportant(SubSeq(s, 1, Len(s) - 1)), s[Len(s)])

\* Mutant of CompareDateDesc: oldest creation date first.
CompareDateDesc_Ascending(a, b) ==
    IF a.date = b.date THEN 0 ELSE IF a.date < b.date THEN -1 ELSE 1

\* (a, b) => a.date !== b.date ? b.date.localeCompare(a.date) : 0, and
\* (a, b) => b.date.localeCompare(a.date): newest creation date first.
CompareDateDesc(a, b) ==
    IF a.date = b.date THEN 0 ELSE IF b.date < a.date THEN -1 ELSE 1

RECURSIVE InsertByDateDesc(_, _)
InsertByDateDesc(s, x) ==
    IF s = <<>> THEN <<x>>
    ELSE IF CompareDateDesc(s[Len(s)], x) <= 0 THEN Append(s, x)
    ELSE Append(InsertByDateDesc(SubSeq(s, 1, Len(s) - 1), x), s[Len(s)])

RECURSIVE SortByDateDesc(_)
SortByDateDesc(s) ==
    IF s = <<>> THEN <<>>
    ELSE InsertByDateDesc(SortByDateDesc(SubSeq(s, 1, Len(s) - 1)), s[Len(s)])

(***************************************************************************)
(* part_000: the daily view                                                *)
(***************************************************************************)
\* Mutant of IsVisible: a task expires on its due date, not after it.
IsVisible_StrictDue(task, currentDisplayDateStr) ==
    IF task.completed THEN task.date = currentDisplayDateStr
    ELSE /\ task.date <= currentDisplayDateStr
         /\ (task.dueDate = 0 \/ currentDisplayDateStr < task.dueDate)

\* Mutant of IsVisible: completed tasks are subject to the due-date rule too.
IsVisible_CompletedExpire(task, currentDisplayDateStr) ==
    /\ IF task.completed THEN task.date = currentDisplayDateStr
                         ELSE task.date <= currentDisplayDateStr
    /\ (task.dueDate = 0 \/ currentDisplayDateStr <= task.dueDate)

\* The predicate of tasks.filter in displayedTasks.
IsVisible(task, currentDisplayDateStr) ==
    IF task.completed THEN task.date = currentDisplayDateStr
    ELSE LET isCreated == task.date <= currentDisplayDateStr
             isNotExpired == task.dueDate = 0 \/ currentDisplayDateStr <= task.dueDate
         IN  isCreated /\ isNotExpired

ComputeDisplayedTasks(ts, date) ==
    LET currentDisplayDateStr == toDateString(date)
        visibleTasks == SelectSeq(ts, LAMBDA task : IsVisible(task, currentDisplayDateStr))
    IN  SortByImportant(visibleTasks)


\* Task records as the snapshot listener builds them (interface Task).
\* The id of a task of a view list is its position in the snapshot.
TaskShapes(completedSet, importantSet, dueSet, apartmentSet) ==
    [completed : completedSet, important : importantSet, date : Days,
     dueDate : dueSet, apartment : apartmentSet]

WithIds(s) == [i \in DOMAIN s |->
    [id |-> i, completed |-> s[i].completed, important |-> s[i].important,
     date |-> s[i].date, dueDate |-> s[i].dueDate, apartment |-> s[i].apartment]]

DailyTaskLists ==
    {WithIds(s) : s \in SeqsUpTo(TaskShapes(BOOLEAN, BOOLEAN, 0..MaxDay, {""}), MaxTasks)}

(***************************************************************************)
(* The record mutations.  Every write is keyed by the id of one document   *)
(* and touches that document only, so the model follows one document of    *)
(* the tasks collection, from before addDoc creates it until after         *)
(* deleteDoc removes it (ids are never used again), together with the copy *)
(* of it that the session holds from the last snapshot.  Of the fields of  *)
(* a task the model keeps text, completed, subtasks and isBreakingDown.    *)
(***************************************************************************)
Variants == {"part_000", "index"}

MONTHLY_CHECKLIST_ITEMS == <<
    "Controllo generale filtri aria condizionata",
    "Verifica funzionamento estintori e luci di emergenza",
    "Ispezione e pulizia aree comuni",
    "Test scarichi e rubinetti per perdite" >>

QUARTERLY_CHECKLIST_ITEMS == <<
    "Pulizia approfondita unita HVAC",
    "Test completo sistema allarmi antincendio",
    "Controllo e pulizia grondaie e pluviali",
    "Verifica pressione impianto idraulico",
    "Ispezione tetto e infissi esterni" >>

\* A document that does not exist (status "none": not yet created,
\* "deleted": removed); a live document has status "live".
Missing(st) ==
    [status |-> st, text |-> "", completed |-> FALSE, subtasks |-> <<>>,
     isBreakingDown |-> FALSE]

NoDoc == Missing("none")

\* addDoc(collection(db, 'tasks'), {..., completed: false, subtasks})
NewTask(text, subtasks) ==
    [status |-> "live", text |-> text, completed |-> FALSE, subtasks |-> subtasks,
     isBreakingDown |-> FALSE]

\* Mutant of NewSubtasks: the first subtask is instantiated as completed.
NewSubtasks_FirstDone(texts) ==
    [i \in DOMAIN texts |-> [id |-> i, text |-> texts[i], completed |-> i = 1]]

\* The subtasks a list of texts is instantiated as; the id of a subtask is
\* its position (the code draws ids that are unique within the task).
NewSubtasks(texts) ==
    [i \in DOMAIN texts |-> [id |-> i, text |-> texts[i], completed |-> FALSE]]

\* subtasks.every(sub => sub.completed)
EverySubtaskCompleted(subtasks) == \A i \in DOMAIN subtasks : subtasks[i].completed

\* task.subtasks.map(sub => sub.id === subtaskId ? {...sub, completed: !sub.completed} : sub)
ToggledSubtasks(subtasks, subtaskId) ==
    [i \in DOMAIN subtasks |->
        IF subtasks[i].id = subtaskId
        THEN [subtasks[i] EXCEPT !.completed = ~subtasks[i].completed]
        ELSE subtasks[i]]

\* updateDoc(doc(db, 'tasks', id), fields): the named fields of a live
\* document are replaced; the update of a missing document is rejected.
UpdateDoc(d, names, fields) ==
    IF d.status # "live" THEN d
    ELSE [status |-> "live",
          text |-> IF "text" \in names THEN fields.text ELSE d.text,
          completed |-> IF "completed" \in names THEN fields.completed ELSE d.completed,
          subtasks |-> IF "subtasks" \in names THEN fields.subtasks ELSE d.subtasks,
          isBreakingDown |-> IF "isBreakingDown" \in names THEN fields.isBreakingDown
                             ELSE d.isBreakingDown]

\* The fields of a write; UpdateDoc reads the named ones only.
Fields(completed, subtasks, isBreakingDown) ==
    [completed |-> completed, subtasks |-> subtasks, isBreakingDown |-> isBreakingDown]

\* The mutation variables while no mutation is modelled.
MutationsIdle ==
    /\ variant = "index"
    /\ store = NoDoc
    /\ allTasks = NoDoc
    /\ breakdown = "idle"
    /\ strayCalls = {}

\* The grouping variables while no dashboard of index.tsx is rendered.
GroupingIdle ==
    /\ role = "user"
    /\ taskFilter = "da_fare"
    /\ apartmentTasks = <<>>
    /\ generalTasks = <<>>

\* The finance variables while no ledger is modelled: useState([]), useState(0).
FinanceIdle ==
    /\ ledger = <<>>
    /\ transactions = <<>>
    /\ balance = 0

NoStats == [totalPending |-> 0, completedLastWeek |-> 0]

\* The statistics variables while no AdminDashboard is rendered.
StatsIdle ==
    /\ viewingUser = ""
    /\ viewingUserTasks = <<>>
    /\ globalStats = NoStats
    /\ userStats = <<>>
    /\ statWidget = NoStats

MaxUploadTasks == 2   \* tasks whose photo upload is followed
UploadTaskIds == 1..MaxUploadTasks

\* useState<string | null>(null)
NoUpload == 0

\* No handlePhotoUpload call stands for the task; ended tells how the last
\* one ended: "none", "stored" or "failed".
NotUploading(ended) == [stage |-> "idle", file |-> "", ended |-> ended]

\* The upload variables while no photo upload is modelled.
UploadIdle ==
    /\ uploadingPhotoId = NoUpload
    /\ photo = <<>>
    /\ uploads = <<>>

\* useState({stagionali: [], contestuali: []})
NoSuggestions == [stagionali |-> <<>>, contestuali |-> <<>>]

\* No handleGetSuggestions call stands; failed and promise tell how the
\* last one went: whether its try block threw, and the state of the promise
\* the handler returned ("none" before the first call).
NotSuggesting(failed, promise) == [stage |-> "idle", failed |-> failed, promise |-> promise]

\* The suggestion variables while no suggestion fetch is modelled.
SuggestIdle ==
    /\ isSuggesting = FALSE
    /\ suggestions = NoSuggestions
    /\ modalState = ""
    /\ suggestCall = NotSuggesting(FALSE, "none")

\* The permission variables while no session of index.tsx is followed.
PermissionIdle ==
    /\ userName = ""
    /\ taskToEdit = ""
    /\ taskWrites = {}

\* The session variables while no shared document is followed.
SessionsIdle ==
    /\ remoteTask = <<>>
    /\ sessionTask = <<>>
    /\ lastToggled = <<>>

\* The variables of the non-admin task list while none is followed.
OwnIdle ==
    /\ heldTasks = <<>>
    /\ shownTasks = <<>>

\* The fcm_tokens document when it does not exist, and when it holds tokens.
NoTokensDoc == [exists |-> FALSE, tokens |-> <<>>]
TokensDoc(tokens) == [exists |-> TRUE, tokens |-> tokens]

\* The push token variables while no registration is followed.
TokensIdle ==
    /\ fcmTokens = NoTokensDoc
    /\ registrations = <<>>
    /\ sendRuns = <<>>
    /\ registeredTokens = {}
    /\ failedTokens = {}

\* The variables of the parts modelled further on, but those of one part.
LaterIdleBut(part) ==
    /\ IF part = "upload" THEN TRUE ELSE UploadIdle
    /\ IF part = "suggest" THEN TRUE ELSE SuggestIdle
    /\ IF part = "permission" THEN TRUE ELSE PermissionIdle
    /\ IF part = "sessions" THEN TRUE ELSE SessionsIdle
    /\ IF part = "own" THEN TRUE ELSE OwnIdle
    /\ IF part = "tokens" THEN TRUE ELSE TokensIdle

LaterIdle == LaterIdleBut("")

\* The variables of the parts of App that a specification leaves aside.
OthersIdle == FinanceIdle /\ StatsIdle /\ LaterIdle

\* The instant at which the application was opened: mid-morning of day 1.
InitNow == HoursPerDay * 1 + 10

InitDaily ==
    /\ now = InitNow
    /\ tasks \in DailyTaskLists
    /\ displayDate = now
    /\ displayedTasks = ComputeDisplayedTasks(tasks, displayDate)
    /\ zone = NoZoneChange
    /\ dueDate = 0
    /\ urgencyClass = ""
    /\ GroupingIdle
    /\ MutationsIdle
    /\ OthersIdle

\* setDisplayDate(d => new Date(d.setDate(d.getDate() - 1)))
handlePreviousDay ==
    /\ toDateString(displayDate) > 1
    /\ displayDate' = displayDate - HoursPerDay
    /\ displayedTasks' = ComputeDisplayedTasks(tasks, displayDate')
    /\ UNCHANGED <<now, tasks, urgencyVars, groupVars, mutationVars, laterVars, otherVars>>

\* setDisplayDate(d => new Date(d.setDate(d.getDate() + 1)))
handleNextDay ==
    /\ toDateString(displayDate) < MaxDay
    /\ displayDate' = displayDate + HoursPerDay
    /\ displayedTasks' = ComputeDisplayedTasks(tasks, displayDate')
    /\ UNCHANGED <<now, tasks, urgencyVars, groupVars, mutationVars, laterVars, otherVars>>

\* setDisplayDate(new Date()), offered when the displayed day is not today
goToToday ==
    /\ toDateString(displayDate) # toDateString(now)
    /\ displayDate' = now
    /\ displayedTasks' = ComputeDisplayedTasks(tasks, displayDate')
    /\ UNCHANGED <<now, tasks, urgencyVars, groupVars, mutationVars, laterVars, otherVars>>

NextDaily == handlePreviousDay \/ handleNextDay \/ goToToday

SpecDaily == InitDaily /\ [][NextDaily]_vars

(***************************************************************************)
(* Claims about the daily view (checked under SpecDaily)                   *)
(***************************************************************************)
Range(s) == {s[i] : i \in DOMAIN s}

DisplayDateKey == toDateString(displayDate)

\* The visibility rule as section 4.2 states it.
StatedRule(T, D) ==
    \/ T.completed /\ T.date = D
    \/ ~T.completed /\ T.date <= D /\ (T.dueDate = 0 \/ D <= T.dueDate)

\* C1: a task of the list is in the daily view exactly when it is completed
\* and created on the displayed day, or incomplete, created on or before the
\* displayed day and not past its due date (if it has one); every visible
\* task is shown once, nothing else is shown.
C1_VisibilityRule ==
    /\ Range(displayedTasks) = {T \in Range(tasks) : StatedRule(T, DisplayDateKey)}
    /\ Len(displayedTasks) = Cardinality(Range(displayedTasks))

\* C1 witness: on a day after the first, one list holds a completed task of
\* that day (shown), a completed task of an earlier day (hidden); the view
\* differs from the list.
C1_Witness ==
    /\ DisplayDateKey > 1
    /\ \E T \in Range(tasks) : T.completed /\ T.date = DisplayDateKey
                                /\ T \in Range(displayedTasks)
    /\ \E T \in Range(tasks) : /\ ~T.completed /\ T.dueDate # 0
                                /\ T.dueDate < DisplayDateKey
                                /\ T \notin Range(displayedTasks)

ImportantIncomplete(T) == T.important /\ ~T.completed

\* The position of the task with id k in the sequence s.
IndexOf(s, k) == CHOOSE i \in DOMAIN s : s[i].id = k

\* Tasks a and b, both shown, keep in the view the order they have in the list.
KeepsInputOrder(a, b) ==
    (a.id < b.id) => (IndexOf(displayedTasks, a.id) < IndexOf(displayedTasks, b.id))

\* C7 as stated: every important and incomplete task of the daily view
\* precedes every task that is not (important and incomplete), and each of
\* the two groups keeps its input order.
C7_Stated_ImportantIncompleteFirst ==
    \A i, j \in DOMAIN displayedTasks :
        LET a == displayedTasks[i]
            b == displayedTasks[j]
        IN  /\ (ImportantIncomplete(a) /\ ~ImportantIncomplete(b)) => i < j
            /\ (ImportantIncomplete(a) = ImportantIncomplete(b)) => KeepsInputOrder(a, b)

\* C7 as amended: every important task of the daily view, completed or not,
\* precedes every task that is not important, and the important tasks as
\* well as the others keep their relative input order.
C7_ImportantFirstStable ==
    \A i, j \in DOMAIN displayedTasks :
        LET a == displayedTasks[i]
            b == displayedTasks[j]
        IN  /\ (a.important /\ ~b.important) => i < j
            /\ (a.important = b.important) => KeepsInputOrder(a, b)

\* C7 witness: after a move to a later day, the view shows an important,
\* completed task ahead of a task that is not important and precedes it in
\* the list.
C7_Witness ==
    /\ DisplayDateKey > toDateString(now)
    /\ Len(displayedTasks) = 2
    /\ displayedTasks[1].important /\ displayedTasks[1].completed
    /\ ~displayedTasks[2].important
    /\ displayedTasks[2].id < displayedTasks[1].id

Degenerate(T) == T.dueDate # 0 /\ T.dueDate < T.date

\* C8 as stated: a task whose due date is strictly before its creation date
\* is in the daily view of no day, completed or not.
C8_Stated_DegenerateNeverVisible ==
    \A T \in Range(tasks) : Degenerate(T) => T \notin Range(displayedTasks)

\* C8 as amended: an incomplete task whose due date is strictly before its
\* creation date is in the daily view of no day; a completed one is in the
\* view of exactly the day of its creation-date key.
C8_DegenerateVisibility ==
    \A T \in Range(tasks) : Degenerate(T) =>
        (T \in Range(displayedTasks) <=> (T.completed /\ T.date = DisplayDateKey))

\* C8 witness: on one day the list holds an incomplete degenerate task,
\* hidden although created before that day, and a completed one, shown.
C8_Witness ==
    /\ \E T \in Range(tasks) : /\ Degenerate(T) /\ ~T.completed
                                /\ T.date <= DisplayDateKey
                                /\ T \notin Range(displayedTasks)
    /\ \E T \in Range(tasks) : /\ Degenerate(T) /\ T.completed
                                /\ T \in Range(displayedTasks)

(***************************************************************************)
(* index.tsx: the apartment grouping of AdminDashboard and of              *)
(* renderUserDashboard                                                     *)
(***************************************************************************)
APARTMENTS == <<
    "Superior Borgo Pio", "Deluxe Borgo Pio", "Superior Via delle Mura",
    "First Via delle Mura", "Int. 6 Via Ostiense", "Int. 8 Via Ostiense",
    "Int. 9 Via Ostiense", "Int. 19 Via Ostiense", "Via Lattanzio",
    "Via Gaetta", "Via Arco di Parma", "Via Angelo Emo" >>

\* APARTMENTS.includes(name)
ApartmentsIncludes(name) == \E i \in DOMAIN APARTMENTS : APARTMENTS[i] = name

TaskFilters == {"da_fare", "completate", "tutte"}

\* The completion filter of both dashboards.
FilterByCompletion(ts, f) ==
    SelectSeq(ts, LAMBDA t : IF f = "da_fare" THEN ~t.completed
                             ELSE IF f = "completate" THEN t.completed
                             ELSE TRUE)

NoBuckets == [a \in {} |-> <<>>]

\* Mutant of PushTask: the bucket is created anew at every push.
PushTask_FreshBucket(groups, task) ==
    IF task.apartment # "" /\ ApartmentsIncludes(task.apartment)
    THEN [aptTasks |-> [a \in DOMAIN groups.aptTasks \cup {task.apartment} |->
                            IF a = task.apartment THEN <<task>> ELSE groups.aptTasks[a]],
          genTasks |-> groups.genTasks]
    ELSE [aptTasks |-> groups.aptTasks, genTasks |-> Append(groups.genTasks, task)]

\* Mutant of PushTask: any non-empty apartment tag gets a bucket.
PushTask_AnyTag(groups, task) ==
    IF task.apartment # ""
    THEN [aptTasks |-> [a \in DOMAIN groups.aptTasks \cup {task.apartment} |->
                            IF a \in DOMAIN groups.aptTasks
                            THEN (IF a = task.apartment
                                  THEN Append(groups.aptTasks[a], task)
                                  ELSE groups.aptTasks[a])
                            ELSE <<task>>],
          genTasks |-> groups.genTasks]
    ELSE [aptTasks |-> groups.aptTasks, genTasks |-> Append(groups.genTasks, task)]

\* The body of the forEach: the bucket of an apartment is created when the
\* first task of that apartment is pushed.
PushTask(groups, task) ==
    IF task.apartment # "" /\ ApartmentsIncludes(task.apartment)
    THEN [aptTasks |-> [a \in DOMAIN groups.aptTasks \cup {task.apartment} |->
                            IF a \in DOMAIN groups.aptTasks
                            THEN (IF a = task.apartment
                                  THEN Append(groups.aptTasks[a], task)
                                  ELSE groups.aptTasks[a])
                            ELSE <<task>>],
          genTasks |-> groups.genTasks]
    ELSE [aptTasks |-> groups.aptTasks, genTasks |-> Append(groups.genTasks, task)]

RECURSIVE GroupByApartment(_)
GroupByApartment(ts) ==
    IF ts = <<>> THEN [aptTasks |-> NoBuckets, genTasks |-> <<>>]
    ELSE PushTask(GroupByApartment(SubSeq(ts, 1, Len(ts) - 1)), ts[Len(ts)])

\* AdminDashboard: viewingUserTasks, filteredTasks, then the grouping.
AdminGrouping(viewedTasks, f) ==
    LET sortedUserTasks == SortByDateDesc(viewedTasks)
        filteredTasks == FilterByCompletion(sortedUserTasks, f)
    IN  GroupByApartment(filteredTasks)

\* renderUserDashboard over the tasks state, which the snapshot listener
\* keeps sorted newest first.
UserGrouping(fetchedTasks, f) ==
    LET tasksState == SortByDateDesc(fetchedTasks)
        filteredUserTasks == FilterByCompletion(tasksState, f)
        sortedTasks == SortByDateDesc(filteredUserTasks)
    IN  GroupByApartment(sortedTasks)

Grouping(r, ts, f) == IF r = "admin" THEN AdminGrouping(ts, f) ELSE UserGrouping(ts, f)

\* apartmentTasks[apt]?.length || 0, the count an apartment card shows.
ApartmentCount(apt) ==
    IF apt \in DOMAIN apartmentTasks THEN Len(apartmentTasks[apt]) ELSE 0

\* The apartment tags drawn for the tasks: none, two names of the
\* enumeration and a name that is not in it.
DrawnApartments == {"", "Superior Borgo Pio", "Via Angelo Emo", "Attico"}

GroupTaskLists ==
    {WithIds(s) : s \in SeqsUpTo(TaskShapes(BOOLEAN, {FALSE}, {0}, DrawnApartments), MaxTasks)}

InitGroup ==
    /\ now = InitNow
    /\ role \in {"admin", "user"}
    /\ tasks \in GroupTaskLists
    /\ taskFilter = "da_fare"
    /\ apartmentTasks = Grouping(role, tasks, taskFilter).aptTasks
    /\ generalTasks = Grouping(role, tasks, taskFilter).genTasks
    /\ displayDate = now
    /\ displayedTasks = <<>>
    /\ zone = NoZoneChange
    /\ dueDate = 0
    /\ urgencyClass = ""
    /\ MutationsIdle
    /\ OthersIdle

\* setTaskFilter / setUserTaskFilter, and the render that follows
setTaskFilter(f) ==
    /\ f # taskFilter
    /\ taskFilter' = f
    /\ apartmentTasks' = Grouping(role, tasks, f).aptTasks
    /\ generalTasks' = Grouping(role, tasks, f).genTasks
    /\ UNCHANGED <<now, role, tasks, displayDate, displayedTasks, urgencyVars,
                   mutationVars, laterVars, otherVars>>

NextGroup == \E f \in TaskFilters : setTaskFilter(f)

SpecGroup == InitGroup /\ [][NextGroup]_vars

(***************************************************************************)
(* Claims about the apartment grouping (checked under SpecGroup)           *)
(***************************************************************************)
\* The completion filter as the dashboards label it.
PassesFilter(T) ==
    \/ taskFilter = "tutte"
    \/ taskFilter = "da_fare" /\ ~T.completed
    \/ taskFilter = "completate" /\ T.completed

\* The tasks that are input to the grouping (ids are unique in a snapshot).
GroupingInput == {T \in Range(tasks) : PassesFilter(T)}

Occurrences(s, T) == Cardinality({i \in DOMAIN s : s[i] = T})

RECURSIVE SumOfBucketSizes(_)
SumOfBucketSizes(keys) ==
    IF keys = {} THEN 0
    ELSE LET k == CHOOSE x \in keys : TRUE
         IN  Len(apartmentTasks[k]) + SumOfBucketSizes(keys \ {k})

InEnumeration(name) == name \in {APARTMENTS[i] : i \in DOMAIN APARTMENTS}

\* C9: the grouping is a partition of its input: every task that passes the
\* completion filter is once in the bucket of its apartment tag when the tag
\* is in APARTMENTS, once in the general bucket otherwise, in no other
\* bucket, and the bucket sizes add up to the number of input tasks.
C9_GroupingIsPartition ==
    /\ \A T \in GroupingInput :
        /\ InEnumeration(T.apartment) =>
              /\ T.apartment \in DOMAIN apartmentTasks
              /\ Occurrences(apartmentTasks[T.apartment], T) = 1
              /\ Occurrences(generalTasks, T) = 0
        /\ ~InEnumeration(T.apartment) => Occurrences(generalTasks, T) = 1
        /\ \A a \in DOMAIN apartmentTasks :
              a # T.apartment => Occurrences(apartmentTasks[a], T) = 0
    /\ SumOfBucketSizes(DOMAIN apartmentTasks) + Len(generalTasks)
         = Cardinality(GroupingInput)

\* C9 witness: with the filter set to all tasks, one task sits in the bucket
\* of its apartment and one task with a tag outside the enumeration sits in
\* the general bucket.
C9_Witness ==
    /\ taskFilter = "tutte"
    /\ \E a \in DOMAIN apartmentTasks : Len(apartmentTasks[a]) = 1
    /\ \E i \in DOMAIN generalTasks : generalTasks[i].apartment = "Attico"

\* C10 as stated: the mapping has a key for every name of APARTMENTS, with
\* the empty sequence for an apartment without a task.
C10_Stated_EveryApartmentIsKey ==
    \A i \in DOMAIN APARTMENTS :
        /\ APARTMENTS[i] \in DOMAIN apartmentTasks
        /\ (\A T \in GroupingInput : T.apartment # APARTMENTS[i])
              => apartmentTasks[APARTMENTS[i]] = <<>>

\* C10 as amended: the mapping has a key for exactly the names of APARTMENTS
\* that tag at least one input task; the count read for every name of
\* APARTMENTS (0 for a missing key) is the number of input tasks it tags.
C10_KeysOfTaggedApartments ==
    /\ DOMAIN apartmentTasks =
          {a \in {APARTMENTS[i] : i \in DOMAIN APARTMENTS} :
              \E T \in GroupingInput : T.apartment = a}
    /\ \A i \in DOMAIN APARTMENTS :
          ApartmentCount(APARTMENTS[i]) =
              Cardinality({T \in GroupingInput : T.apartment = APARTMENTS[i]})

\* C10 witness: with the filter set to completed tasks, the mapping has a
\* key, and has none for an apartment whose only task does not pass the
\* filter.
C10_Witness ==
    /\ taskFilter = "completate"
    /\ DOMAIN apartmentTasks # {}
    /\ "Via Angelo Emo" \notin DOMAIN apartmentTasks
    /\ \E T \in Range(tasks) : T.apartment = "Via Angelo Emo"

(***************************************************************************)
(* The urgency classifier as a TaskItem applies it: the class is computed  *)
(* from the task's dueDate and new Date() at every render.                 *)
(***************************************************************************)
InitUrgency ==
    /\ now = HoursPerDay
    /\ zone \in Zones
    /\ dueDate \in 0..MaxUrgencyDay
    /\ urgencyClass = getUrgencyClass(dueDate, now, zone)
    /\ tasks = <<>>
    /\ displayDate = now
    /\ displayedTasks = <<>>
    /\ GroupingIdle
    /\ MutationsIdle
    /\ OthersIdle

\* An hour passes and the item is rendered again.
RenderLater ==
    /\ now < HoursPerDay * (MaxUrgencyDay + 1) - 1
    /\ now' = now + 1
    /\ urgencyClass' = getUrgencyClass(dueDate, now', zone)
    /\ UNCHANGED <<zone, dueDate, dailyVars, groupVars, mutationVars, laterVars, otherVars>>

NextUrgency == RenderLater

SpecUrgency == InitUrgency /\ [][NextUrgency]_vars

(***************************************************************************)
(* Claims about the urgency classifier (checked under SpecUrgency)         *)
(***************************************************************************)
\* The reference date at midnight: local midnight of the current local day.
ReferenceMidnight == LocalMidnight(zone, LocalDayOf(zone, now))

\* d = ceil((dueDate - referenceDate at midnight) / 1 day)
WholeDays == Ceil(LocalMidnight(zone, dueDate) - ReferenceMidnight, HoursPerDay)

\* C5: without a due date there is no tier; otherwise the tier is decided by
\* the whole-day difference d alone: d <= 1 (overdue included) is high,
\* d in 2..3 is medium, d in 4..5 is neutral (no tier), d > 5 is low.
C5_UrgencyTiers ==
    /\ dueDate = 0 => urgencyClass = ""
    /\ dueDate # 0 =>
        /\ WholeDays <= 1 => urgencyClass = "urgency-high"
        /\ WholeDays \in 2..3 => urgencyClass = "urgency-medium"
        /\ WholeDays \in 4..5 => urgencyClass = ""
        /\ WholeDays > 5 => urgencyClass = "urgency-low"

\* C5 witness: a task rendered again in the afternoon, five days from due,
\* in a zone whose clocks are set back in between, six whole days by the
\* classifier's count: tier low.
C5_Witness ==
    /\ (now + OffsetAt(zone, now)) % HoursPerDay = 15
    /\ dueDate # 0
    /\ dueDate - LocalDayOf(zone, now) = 5
    /\ WholeDays = 6
    /\ urgencyClass = "urgency-low"

\* Day number of 2024-01-dd (day 0 is 2023-12-31).
Jan2024(dd) == dd

\* C6 as stated: a task due 2024-01-10 is in tier medium on 2024-01-09 and
\* in tier high on 2024-01-10.
C6_Stated_Scenario ==
    dueDate = Jan2024(10) =>
        /\ LocalDayOf(zone, now) = Jan2024(9) => urgencyClass = "urgency-medium"
        /\ LocalDayOf(zone, now) = Jan2024(10) => urgencyClass = "urgency-high"

\* No clock of the zone is set back between the midnights of 2024-01-09 and
\* 2024-01-10 (no zone set its clocks back on that day).
NoSetBackOnJan9 == ~(zone.shift = -1 /\ zone.at = Jan2024(9))

\* C6 as amended: a task due 2024-01-10 is in tier high on 2024-01-09 (one
\* day remaining passes the check d <= 1) and in tier high on 2024-01-10.
C6_Scenario ==
    (dueDate = Jan2024(10) /\ NoSetBackOnJan9) =>
        /\ LocalDayOf(zone, now) = Jan2024(9) => urgencyClass = "urgency-high"
        /\ LocalDayOf(zone, now) = Jan2024(10) => urgencyClass = "urgency-high"

\* C6 witness: the task due 2024-01-10 rendered in the afternoon of
\* 2024-01-09 shows tier high.
C6_Witness ==
    /\ dueDate = Jan2024(10)
    /\ NoSetBackOnJan9
    /\ LocalDayOf(zone, now) = Jan2024(9)
    /\ (now + OffsetAt(zone, now)) % HoursPerDay = 15
    /\ urgencyClass = "urgency-high"

(***************************************************************************)
(* The handlers of App and the snapshot listener                           *)
(***************************************************************************)
MaxAiSubtasks == 2   \* longest decomposition the text-generation service returns

MockSubtaskTexts ==
    << "Step 1: Ispezionare", "Step 2: Acquistare materiale", "Step 3: Eseguire lavoro" >>

\* result.subtasks of the text-generation service, n texts
AiSubtaskTexts(n) == [i \in 1..n |-> "sotto-attivita"]

\* What the session sees of a document: a missing document is in no snapshot.
SnapshotOf(d) == IF d.status = "live" THEN d ELSE NoDoc

\* find(t => t.id === id) over the locally held tasks
Found == allTasks.status = "live"

\* The write of handleToggleSubtask:
\*   part_000  { subtasks: newSubtasks, completed: allSubtasksCompleted }
\*   index     { subtasks: newSubtasks }
ToggleSubtaskWrite(v, task, subtaskId) ==
    LET newSubtasks == ToggledSubtasks(task.subtasks, subtaskId)
        allSubtasksCompleted == EverySubtaskCompleted(newSubtasks)
    IN  IF v = "part_000"
        THEN [names |-> {"subtasks", "completed"},
              fields |-> Fields(allSubtasksCompleted, newSubtasks, FALSE)]
        ELSE [names |-> {"subtasks"}, fields |-> Fields(FALSE, newSubtasks, FALSE)]

ViewsIdle ==
    /\ now = InitNow
    /\ tasks = <<>>
    /\ displayDate = now
    /\ displayedTasks = <<>>
    /\ zone = NoZoneChange
    /\ dueDate = 0
    /\ urgencyClass = ""
    /\ GroupingIdle

Init ==
    /\ variant \in Variants
    /\ store = NoDoc
    /\ allTasks = NoDoc
    /\ breakdown = "idle"
    /\ strayCalls = {}
    /\ ViewsIdle
    /\ OthersIdle

\* onSnapshot listener: the local task state is replaced by the snapshot.
onSnapshot ==
    /\ allTasks # SnapshotOf(store)
    /\ allTasks' = SnapshotOf(store)
    /\ UNCHANGED <<variant, strayCalls, store, breakdown, viewVars>>

\* Values of the text field of the task modal.
ModalTexts == {"", " ", " Pulire "}

\* String.prototype.trim
Trim(text) ==
    CASE text = " " -> ""
      [] text = " Pulire " -> "Pulire"
      [] OTHER -> text

\* index.tsx: the suggestions that handleFetchSuggestions sets
MockSuggestions ==
    {"Pulizia grondaie", "Controllo riscaldamento",
     "Comprare vernice per ritocchi", "Controllare scorta lampadine"}

\* part_000: strings that the text-generation service may answer with
AiSuggestionTexts == {"", "Pulizia grondaie"}

\* The suggestions that the suggestions modal lists.
SuggestionsOf(v) == IF v = "part_000" THEN AiSuggestionTexts ELSE MockSuggestions

\* handleSaveTask(data, taskToEdit): updateDoc of the text of the task to
\* edit, or addDoc of a task without subtasks.
handleSaveTask(text, editing) ==
    /\ IF editing
       THEN store' = UpdateDoc(store, {"text"}, [text |-> text])
       ELSE /\ store.status = "none"
            /\ store' = NewTask(text, <<>>)
    /\ UNCHANGED <<variant, strayCalls, allTasks, breakdown, viewVars>>

\* TaskModal.handleSubmit; the modal edits a task that the session holds.
TaskModalSubmit(text, isEditing) ==
    /\ isEditing => Found
    /\ Trim(text) # ""
    /\ handleSaveTask(Trim(text), isEditing)

\* part_000 handleAddSuggestion(text), index.tsx onAdd of SuggestionsModal
handleAddSuggestion(text) == handleSaveTask(text, FALSE)

\* handleCreateChecklistTask(type, dueDate)
handleCreateChecklistTask(type) ==
    /\ store.status = "none"
    /\ LET items == IF type = "monthly" THEN MONTHLY_CHECKLIST_ITEMS
                                         ELSE QUARTERLY_CHECKLIST_ITEMS
           title == IF type = "monthly" THEN "Manutenzione Mensile"
                                        ELSE "Manutenzione Trimestrale"
       IN  store' = NewTask(title, NewSubtasks(items))
    /\ UNCHANGED <<variant, strayCalls, allTasks, breakdown, viewVars>>

\* Mutant of ToggleTaskWrite: the subtasks follow the task.
ToggleTaskWrite_SubtasksFollow(task) ==
    [names |-> {"completed", "subtasks"},
     fields |-> Fields(~task.completed,
                       [i \in DOMAIN task.subtasks |->
                           [task.subtasks[i] EXCEPT !.completed = ~task.completed]],
                       FALSE)]

\* The write of handleToggleTask: { completed: !task.completed, ... } with
\* date (part_000) or completedAt (index), fields the model does not keep.
ToggleTaskWrite(task) ==
    [names |-> {"completed"}, fields |-> Fields(~task.completed, <<>>, FALSE)]

\* handleToggleTask(id)
handleToggleTask ==
    /\ Found
    /\ LET w == ToggleTaskWrite(allTasks)
       IN  store' = UpdateDoc(store, w.names, w.fields)
    /\ UNCHANGED <<variant, strayCalls, allTasks, breakdown, viewVars>>

\* handleToggleSubtask(taskId, subtaskId), subtaskId of a rendered subtask
handleToggleSubtask(subtaskId) ==
    /\ Found
    /\ \E i \in DOMAIN allTasks.subtasks : allTasks.subtasks[i].id = subtaskId
    /\ LET w == ToggleSubtaskWrite(variant, allTasks, subtaskId)
       IN  store' = UpdateDoc(store, w.names, w.fields)
    /\ UNCHANGED <<variant, strayCalls, allTasks, breakdown, viewVars>>

\* The remote calls a handler issues, recorded when the handler was called
\* with the id of a task that the session does not hold.
Issue(calls) == IF Found THEN strayCalls ELSE strayCalls \cup calls

\* Mutant of handleDeleteTask: the task is also dropped from the local state.
handleDeleteTask_DropsLocally ==
    /\ store' = IF store.status = "live" THEN Missing("deleted") ELSE store
    /\ allTasks' = NoDoc
    /\ strayCalls' = Issue({"deleteDoc"})
    /\ UNCHANGED <<variant, breakdown, viewVars>>

\* handleDeleteTask(id) (index: once confirmed): deleteDoc, whatever the
\* session holds
handleDeleteTask ==
    /\ store' = IF store.status = "live" THEN Missing("deleted") ELSE store
    /\ strayCalls' = Issue({"deleteDoc"})
    /\ UNCHANGED <<variant, allTasks, breakdown, viewVars>>

\* index handleNoteSave(taskId, note), part_000 handleUpdateNote: updateDoc
\* of the note, a field the model does not keep, whatever the session holds
handleNoteSave ==
    /\ strayCalls' = Issue({"updateDoc"})
    /\ UNCHANGED <<variant, store, allTasks, breakdown, viewVars>>

\* handlePhotoUpload(taskId, file): uploadBytes, then updateDoc of the photo,
\* a field the model does not keep, whatever the session holds
handlePhotoUpload ==
    /\ strayCalls' = Issue({"uploadBytes", "updateDoc"})
    /\ UNCHANGED <<variant, store, allTasks, breakdown, viewVars>>

\* handleBreakdownTask(taskId), up to its first await: the button is
\* disabled while the rendered task is breaking down; part_000 returns when
\* the task has subtasks; a rejected write ends the call.
handleBreakdownTask ==
    /\ breakdown = "idle"
    /\ Found
    /\ ~allTasks.isBreakingDown
    /\ variant = "part_000" => allTasks.subtasks = <<>>
    /\ store' = UpdateDoc(store, {"isBreakingDown"}, Fields(FALSE, <<>>, TRUE))
    /\ breakdown' = IF store.status = "live" THEN "awaiting" ELSE "idle"
    /\ UNCHANGED <<variant, strayCalls, allTasks, viewVars>>

\* part_000: the service answers with n > 0 texts, which are written.
BreakdownDecomposed(n) ==
    /\ variant = "part_000"
    /\ breakdown = "awaiting"
    /\ store' = UpdateDoc(store, {"subtasks"},
                          Fields(FALSE, NewSubtasks(AiSubtaskTexts(n)), FALSE))
    /\ breakdown' = "finally"
    /\ UNCHANGED <<variant, strayCalls, allTasks, viewVars>>

\* part_000: the service fails or answers with no text, or the write of the
\* subtasks is rejected: the catch block, then on to finally.
BreakdownNothing ==
    /\ variant = "part_000"
    /\ breakdown = "awaiting"
    /\ breakdown' = "finally"
    /\ UNCHANGED <<variant, strayCalls, store, allTasks, viewVars>>

\* part_000: finally { updateDoc(..., { isBreakingDown: false }) }
BreakdownFinally ==
    /\ variant = "part_000"
    /\ breakdown = "finally"
    /\ store' = UpdateDoc(store, {"isBreakingDown"}, Fields(FALSE, <<>>, FALSE))
    /\ breakdown' = "idle"
    /\ UNCHANGED <<variant, strayCalls, allTasks, viewVars>>

\* index: the setTimeout callback writes the mock subtasks.
BreakdownTimeout ==
    /\ variant = "index"
    /\ breakdown = "awaiting"
    /\ store' = UpdateDoc(store, {"subtasks", "isBreakingDown"},
                          Fields(FALSE, NewSubtasks(MockSubtaskTexts), FALSE))
    /\ breakdown' = "idle"
    /\ UNCHANGED <<variant, strayCalls, allTasks, viewVars>>

\* index: the write of the setTimeout callback is rejected; nothing catches.
BreakdownTimeoutRejected ==
    /\ variant = "index"
    /\ breakdown = "awaiting"
    /\ breakdown' = "idle"
    /\ UNCHANGED <<variant, strayCalls, store, allTasks, viewVars>>

Next ==
    \/ onSnapshot
    \/ \E text \in ModalTexts, isEditing \in BOOLEAN : TaskModalSubmit(text, isEditing)
    \/ \E text \in SuggestionsOf(variant) : handleAddSuggestion(text)
    \/ \E type \in {"monthly", "quarterly"} : handleCreateChecklistTask(type)
    \/ handleToggleTask
    \/ \E subtaskId \in 1..Len(allTasks.subtasks) : handleToggleSubtask(subtaskId)
    \/ handleDeleteTask
    \/ handleNoteSave
    \/ handlePhotoUpload
    \/ handleBreakdownTask
    \/ \E n \in 1..MaxAiSubtasks : BreakdownDecomposed(n)
    \/ BreakdownNothing
    \/ BreakdownFinally
    \/ BreakdownTimeout
    \/ BreakdownTimeoutRejected

Spec == Init /\ [][Next]_vars

\* A call of handleBreakdownTask that awaits goes on: the service answers
\* or fails, the finally block runs, the timer fires.
BreakdownProgress ==
    /\ WF_vars((\E n \in 1..MaxAiSubtasks : BreakdownDecomposed(n)) \/ BreakdownNothing)
    /\ WF_vars(BreakdownFinally)
    /\ WF_vars(BreakdownTimeout \/ BreakdownTimeoutRejected)

SpecLive == Spec /\ BreakdownProgress

(***************************************************************************)
(* Claims about the record mutations (checked under Spec)                  *)
(***************************************************************************)
\* A step of handleToggleSubtask.
ToggleSubtaskStep == \E subtaskId \in 1..Len(allTasks.subtasks) : handleToggleSubtask(subtaskId)

\* A step of handleToggleSubtask that toggles a subtask which the session
\* holds as completed back to incomplete.
UntoggleSubtaskStep ==
    \E i \in 1..Len(allTasks.subtasks) :
        /\ allTasks.subtasks[i].completed
        /\ handleToggleSubtask(allTasks.subtasks[i].id)

AllSubtasksCompleted(d) ==
    d.status = "live" /\ d.subtasks # <<>> /\ EverySubtaskCompleted(d.subtasks)

\* C2: whenever a write of handleToggleSubtask leaves every subtask of the
\* task completed, the task is marked completed by that same write, in
\* both builds.
C2_Stated_ToggleSubtaskCompletesParent ==
    [][(ToggleSubtaskStep /\ AllSubtasksCompleted(store')) => store'.completed]_vars

\* C3: in every reachable state, a task whose subtasks sequence is not empty
\* and whose subtasks are all completed is marked completed.
C3_Stated_AllSubtasksDoneImpliesCompleted ==
    AllSubtasksCompleted(store) => store.completed

\* C4: a write of handleToggleSubtask that toggles a completed subtask back
\* to incomplete leaves the completed flag of the task as it was.
C4_Stated_UntoggleKeepsParent ==
    [][UntoggleSubtaskStep => store'.completed = store.completed]_vars

(***************************************************************************)
(* index.tsx: the finance ledger.  A transaction document keeps type and   *)
(* amount; its id and the seconds of its date (serverTimestamp) are the    *)
(* hour at which it was recorded, and every recording takes an hour.       *)
(***************************************************************************)
MaxTransactions == 3   \* transactions recorded in one session
MaxStatsDay == 9       \* the day on which the statistics are computed

\* Values of the amount field of the transaction form.
AmountTexts == {"", "abc", "-5", "30", "50", "100"}

\* Number(amount): the number a text converts to, or NaN.
Number(text) ==
    CASE text = "" -> [nan |-> FALSE, value |-> 0]
      [] text = "-5" -> [nan |-> FALSE, value |-> -5]
      [] text = "30" -> [nan |-> FALSE, value |-> 30]
      [] text = "50" -> [nan |-> FALSE, value |-> 50]
      [] text = "100" -> [nan |-> FALSE, value |-> 100]
      [] OTHER -> [nan |-> TRUE, value |-> 0]

isNaN(n) == n.nan

\* (a, b) => (b.date?.seconds || 0) - (a.date?.seconds || 0)
CompareSecondsDesc(a, b) == b.seconds - a.seconds

RECURSIVE InsertBySecondsDesc(_, _)
InsertBySecondsDesc(s, x) ==
    IF s = <<>> THEN <<x>>
    ELSE IF CompareSecondsDesc(s[Len(s)], x) <= 0 THEN Append(s, x)
    ELSE Append(InsertBySecondsDesc(SubSeq(s, 1, Len(s) - 1), x), s[Len(s)])

RECURSIVE SortBySecondsDesc(_)
SortBySecondsDesc(s) ==
    IF s = <<>> THEN <<>>
    ELSE InsertBySecondsDesc(SortBySecondsDesc(SubSeq(s, 1, Len(s) - 1)), s[Len(s)])

\* Mutant of AddToTotal: an expense is added like a deposit.
AddToTotal_ExpenseAdded(acc, curr) == acc + curr.amount

\* The reducer of the balance: deposits are added, anything else subtracted.
AddToTotal(acc, curr) ==
    IF curr.type = "deposit" THEN acc + curr.amount ELSE acc - curr.amount

\* trans.reduce(reducer, 0)
RECURSIVE ReduceToTotal(_)
ReduceToTotal(trans) ==
    IF trans = <<>> THEN 0
    ELSE AddToTotal(ReduceToTotal(SubSeq(trans, 1, Len(trans) - 1)), trans[Len(trans)])

\* Mutant of TransactionTypes: the type buttons are there for every user.
TransactionTypes_ButtonsForAll(r) == {"deposit", "expense"}

\* The values TransactionModal.type can have: its initial value, and for
\* the admin those of the two type buttons.
TransactionTypes(r) ==
    {IF r = "admin" THEN "deposit" ELSE "expense"}
        \cup (IF r = "admin" THEN {"deposit", "expense"} ELSE {})

InitFinance ==
    /\ FinanceIdle
    /\ StatsIdle
    /\ LaterIdle
    /\ MutationsIdle
    /\ role \in {"admin", "user"}
    /\ taskFilter = "da_fare"
    /\ apartmentTasks = <<>>
    /\ generalTasks = <<>>
    /\ now = InitNow
    /\ tasks = <<>>
    /\ displayDate = now
    /\ displayedTasks = <<>>
    /\ zone = NoZoneChange
    /\ dueDate = 0
    /\ urgencyClass = ""

\* onSnapshot listener of the transactions collection
onSnapshotTransactions ==
    LET trans == SortBySecondsDesc(ledger)
    IN  /\ transactions # trans
        /\ transactions' = trans
        /\ balance' = ReduceToTotal(trans)
        /\ UNCHANGED <<now, ledger, dailyVars, urgencyVars, groupVars, mutationVars, laterVars,
                       statsVars>>

\* TransactionModal.handleSubmit and, unless it returns, handleSaveTransaction
\* without a file: addDoc(collection(db, 'transactions'), {...data, date}).
TransactionSubmit(amount, type) ==
    /\ now < InitNow + MaxTransactions
    /\ type \in TransactionTypes(role)
    /\ ~(amount = "" \/ isNaN(Number(amount)))
    /\ ledger' = Append(ledger, [id |-> now, type |-> type,
                                 amount |-> Number(amount).value, seconds |-> now])
    /\ now' = now + 1
    /\ UNCHANGED <<transactions, balance, dailyVars, urgencyVars, groupVars,
                   mutationVars, laterVars, statsVars>>

\* handleResetFinance, confirmed: a batch delete of the held transactions;
\* the reset button is rendered for the admin
handleResetFinance ==
    /\ role = "admin"
    /\ ledger' = SelectSeq(ledger,
                     LAMBDA d : \A i \in DOMAIN transactions : transactions[i].id # d.id)
    /\ UNCHANGED <<now, transactions, balance, dailyVars, urgencyVars, groupVars,
                   mutationVars, laterVars, statsVars>>

NextFinance ==
    \/ onSnapshotTransactions
    \/ \E amount \in AmountTexts, type \in {"deposit", "expense"} :
          TransactionSubmit(amount, type)
    \/ handleResetFinance

SpecFinance == InitFinance /\ [][NextFinance]_vars

(***************************************************************************)
(* Claims about the finance ledger (checked under SpecFinance)             *)
(***************************************************************************)
RECURSIVE SumOfAmounts(_, _)
SumOfAmounts(trans, idx) ==
    IF idx = {} THEN 0
    ELSE LET i == CHOOSE x \in idx : TRUE
         IN  trans[i].amount + SumOfAmounts(trans, idx \ {i})

\* Sum of the deposits minus sum of the expenses of a transaction list.
NetOf(trans) ==
    SumOfAmounts(trans, {i \in DOMAIN trans : trans[i].type = "deposit"})
      - SumOfAmounts(trans, {i \in DOMAIN trans : trans[i].type = "expense"})

\* C11: the held balance is always the sum of the deposits minus the sum of
\* the expenses of the held transactions, and a snapshot delivery makes the
\* held transactions exactly the documents of the collection and the balance
\* their net sum.
C11_BalanceIsNetOfSnapshot ==
    /\ [](balance = NetOf(transactions))
    /\ [][onSnapshotTransactions =>
            /\ Range(transactions') = Range(ledger)
            /\ Len(transactions') = Len(ledger)
            /\ balance' = NetOf(ledger)]_vars

\* C11 witness: deposits of 100 and 50 and an expense of 30 are held, with
\* a balance of 120.
C11_Witness ==
    /\ Len(transactions) = 3
    /\ \E i, j, k \in DOMAIN transactions :
          /\ transactions[i].type = "deposit" /\ transactions[i].amount = 100
          /\ transactions[j].type = "deposit" /\ transactions[j].amount = 50
          /\ transactions[k].type = "expense" /\ transactions[k].amount = 30
    /\ balance = 120

\* C18: every transaction of the collection has a non-negative amount.
C18_Stated_AmountsNonNegative ==
    \A i \in DOMAIN ledger : ledger[i].amount >= 0

\* C29: in a session whose role is not admin every recorded transaction is
\* an expense.
C29_NonAdminRecordsExpenses ==
    role # "admin" => \A i \in DOMAIN ledger : ledger[i].type = "expense"

\* A non-admin session has recorded two transactions.
C29_Witness ==
    /\ role = "user"
    /\ Len(ledger) = 2

(***************************************************************************)
(* AdminDashboard: statistics and the task list of the viewed user.  The   *)
(* variable tasks is the snapshot of the tasks collection, in the order of *)
(* snapshot.docs.                                                          *)
(***************************************************************************)
ALL_USERNAMES == << "Angelo", "Juan", "Elias" >>

\* part_000: the user names of AdminDashboard and of the user selector
allUsernames == << "Angelo", "Matteo", "Juan", "Elias" >>

SeqIncludes(s, x) == \E i \in DOMAIN s : s[i] = x

\* The user names the admin of a build can select.
SelectableUsers(v) == IF v = "part_000" THEN allUsernames ELSE ALL_USERNAMES

\* The owners drawn for the tasks: a user of both builds, a user of part_000 only.
DrawnOwners == {"Juan", "Matteo"}

StatsTaskLists ==
    {[i \in DOMAIN s |->
         [id |-> i, completed |-> s[i].completed, important |-> FALSE,
          date |-> s[i].date, owner |-> s[i].owner]] :
       s \in SeqsUpTo([completed : BOOLEAN, date : Days, owner : DrawnOwners], MaxTasks)}

\* allTasks[username] || [] of the snapshot listener's grouping: part_000
\* groups by any owner, index.tsx keeps the owners of ALL_USERNAMES.
TasksOfOwner(v, fetchedTasks, username) ==
    IF v = "index" /\ ~SeqIncludes(ALL_USERNAMES, username) THEN <<>>
    ELSE SelectSeq(fetchedTasks, LAMBDA t : t.owner = username)

\* Object.values(allTasks).flat(), up to the order of the owners
AllUserTasks(v, fetchedTasks) ==
    SelectSeq(fetchedTasks, LAMBDA t : TasksOfOwner(v, <<t>>, t.owner) # <<>>)

\* globalStats of the useMemo, computed at instant date (new Date())
ComputeGlobalStats(v, fetchedTasks, date) ==
    LET allUserTasks == AllUserTasks(v, fetchedTasks)
        sevenDaysAgo == date - 7 * HoursPerDay
        sevenDaysAgoStr == toDateString(sevenDaysAgo)
    IN  [totalPending |-> Len(SelectSeq(allUserTasks, LAMBDA t : ~t.completed)),
         completedLastWeek |->
             Len(SelectSeq(allUserTasks,
                           LAMBDA t : t.completed /\ t.date >= sevenDaysAgoStr))]

\* A number that is a quotient of integers, in lowest terms.
RECURSIVE Gcd(_, _)
Gcd(a, b) == IF b = 0 THEN a ELSE Gcd(b, a % b)

Quotient(num, den) ==
    LET g == Gcd(num, den) IN [num |-> num \div g, den |-> den \div g]

\* Mutant of Progress: the share of the pending tasks.
Progress_OfPending(completed, total) ==
    IF total > 0 THEN Quotient((total - completed) * 100, total) ELSE Quotient(0, 1)

\* total > 0 ? (completed / total) * 100 : 0
Progress(completed, total) ==
    IF total > 0 THEN Quotient(completed * 100, total) ELSE Quotient(0, 1)

\* userStats of the useMemo (part_000; index.tsx has none)
ComputeUserStats(v, fetchedTasks) ==
    IF v = "index" THEN <<>>
    ELSE [i \in DOMAIN allUsernames |->
            LET username == allUsernames[i]
                userTasks == TasksOfOwner(v, fetchedTasks, username)
                completed == Len(SelectSeq(userTasks, LAMBDA t : t.completed))
                total == Len(userTasks)
                progress == Progress(completed, total)
            IN  [username |-> username, completed |-> completed,
                 pending |-> total - completed, total |-> total,
                 progress |-> progress]]

\* The stat widgets: part_000 presents globalStats.completedLastWeek,
\* index.tsx presents globalStats.globalStats ? ... : 0.
RenderStatWidget(v, stats) ==
    [totalPending |-> stats.totalPending,
     completedLastWeek |->
        IF v = "part_000" THEN stats.completedLastWeek
        ELSE IF "globalStats" \in DOMAIN stats THEN stats.globalStats.completedLastWeek
        ELSE 0]

\* viewingUserTasks of the useMemo
ComputeViewingUserTasks(v, fetchedTasks, user, f) ==
    IF v = "part_000"
    THEN FilterByCompletion(SortByImportant(TasksOfOwner(v, fetchedTasks, user)), f)
    ELSE SortByDateDesc(TasksOfOwner(v, fetchedTasks, user))

\* The instant at which the admin opens the dashboard: mid-morning of day 9.
InitStatsNow == HoursPerDay * MaxStatsDay + 10

InitStats ==
    /\ now = InitStatsNow
    /\ variant \in Variants
    /\ tasks \in StatsTaskLists
    /\ GroupingIdle
    /\ viewingUser = (IF variant = "part_000" THEN "Juan" ELSE "Angelo")
    /\ viewingUserTasks = ComputeViewingUserTasks(variant, tasks, viewingUser, taskFilter)
    /\ globalStats = ComputeGlobalStats(variant, tasks, now)
    /\ userStats = ComputeUserStats(variant, tasks)
    /\ statWidget = RenderStatWidget(variant, globalStats)
    /\ store = NoDoc /\ allTasks = NoDoc /\ breakdown = "idle" /\ strayCalls = {}
    /\ displayDate = now
    /\ displayedTasks = <<>>
    /\ zone = NoZoneChange
    /\ dueDate = 0
    /\ urgencyClass = ""
    /\ FinanceIdle
    /\ LaterIdle

\* The user selector: setViewingUser(e.target.value)
setViewingUser(user) ==
    /\ user # viewingUser
    /\ viewingUser' = user
    /\ viewingUserTasks' = ComputeViewingUserTasks(variant, tasks, user, taskFilter)
    /\ UNCHANGED <<now, tasks, displayDate, displayedTasks, urgencyVars, groupVars,
                   mutationVars, laterVars, financeVars, globalStats, userStats, statWidget>>

NextStats ==
    \E i \in DOMAIN SelectableUsers(variant) : setViewingUser(SelectableUsers(variant)[i])

SpecStats == InitStats /\ [][NextStats]_vars

(***************************************************************************)
(* Claims about the statistics and the admin task list (under SpecStats)   *)
(***************************************************************************)
\* The tasks of the snapshot that belong to a user of the build.
TasksOfAllUsers ==
    {i \in DOMAIN tasks : SeqIncludes(SelectableUsers(variant), tasks[i].owner)}

\* C12: the number that the admin dashboard presents as completed in the
\* last 7 days is the number of tasks of all users that are completed and
\* whose creation-date key is at least the key of today minus 7 days.
C12_Stated_CompletedLastWeekPresented ==
    statWidget.completedLastWeek =
        Cardinality({i \in TasksOfAllUsers :
                        /\ tasks[i].completed
                        /\ tasks[i].date >= toDateString(now - 7 * HoursPerDay)})

\* The tasks of the snapshot that user owns.
OwnedBy(user) == {i \in DOMAIN tasks : tasks[i].owner = user}

\* C13: the statistics of part_000 have one entry per user name; in every
\* entry completed + pending = total, total is the number of the user's
\* tasks, progress * total = completed * 100 when the user has tasks, and
\* progress is exactly 0 when the user has none.
C13_UserStats ==
    /\ variant = "part_000" => Len(userStats) = Len(allUsernames)
    /\ \A i \in DOMAIN userStats :
          LET e == userStats[i]
          IN  /\ e.username = allUsernames[i]
              /\ e.total = Cardinality(OwnedBy(e.username))
              /\ e.completed = Cardinality({k \in OwnedBy(e.username) : tasks[k].completed})
              /\ e.completed + e.pending = e.total
              /\ e.progress.den > 0
              /\ e.total > 0 => e.progress.num * e.total = e.completed * 100 * e.progress.den
              /\ e.total = 0 => e.progress = [num |-> 0, den |-> 1]

\* C13 witness: the admin has selected another user; one user has no task
\* and progress 0, another has two tasks, one of them completed, and
\* progress 50.
C13_Witness ==
    /\ viewingUser = "Elias"
    /\ \E i, j \in DOMAIN userStats :
          /\ userStats[i].total = 0 /\ userStats[i].progress = [num |-> 0, den |-> 1]
          /\ userStats[j].total = 2 /\ userStats[j].completed = 1
          /\ userStats[j].progress = [num |-> 50, den |-> 1]

C16_Stated_AbsentIdIsNoOp == strayCalls = {}

\* The texts of a subtasks sequence, in order.
TextsOf(subtasks) == [i \in DOMAIN subtasks |-> subtasks[i].text]

\* C15: a call of handleCreateChecklistTask creates one task, not completed,
\* whose subtasks carry the texts of the template of the chosen category, in
\* the template's order (four monthly items, five quarterly ones), every
\* subtask incomplete and with an id of its own.
C15_ChecklistFromTemplate ==
    [][\A type \in {"monthly", "quarterly"} :
          handleCreateChecklistTask(type) =>
              /\ store.status = "none" /\ store'.status = "live"
              /\ ~store'.completed
              /\ TextsOf(store'.subtasks) =
                    (IF type = "monthly" THEN MONTHLY_CHECKLIST_ITEMS
                                         ELSE QUARTERLY_CHECKLIST_ITEMS)
              /\ Len(store'.subtasks) = (IF type = "monthly" THEN 4 ELSE 5)
              /\ \A i \in DOMAIN store'.subtasks : ~store'.subtasks[i].completed
              /\ \A i, j \in DOMAIN store'.subtasks :
                    store'.subtasks[i].id = store'.subtasks[j].id => i = j]_vars

\* C15 witness: the quarterly checklist has just been created.
C15_Witness ==
    /\ store.status = "live"
    /\ allTasks.status = "none"
    /\ Len(store.subtasks) = 5
    /\ store.subtasks[5].text = "Ispezione tetto e infissi esterni"
    /\ ~store.completed

\* C19: a write of handleToggleTask leaves the subtasks of the task as they
\* were.
C19_ToggleTaskKeepsSubtasks ==
    [][handleToggleTask => store'.subtasks = store.subtasks]_vars

\* C19 witness: in index.tsx, where only handleToggleTask writes completed,
\* a task has been completed by hand while one of its subtasks is completed
\* and another is not.
C19_Witness ==
    /\ variant = "index"
    /\ store.status = "live"
    /\ store.completed
    /\ \E i, j \in DOMAIN store.subtasks :
          store.subtasks[i].completed /\ ~store.subtasks[j].completed

\* C17: no task of the collection has an empty or whitespace-only text,
\* whichever handler wrote it.
C17_Stated_NoEmptyTextWritten ==
    store.status = "live" => Trim(store.text) # ""

\* C20: whenever the isBreakingDown flag of the task is true, it is false
\* again at some later time (checked under SpecLive).
C20_Stated_BreakingDownIsReset ==
    store.isBreakingDown ~> ~store.isBreakingDown

(***************************************************************************)
(* handlePhotoUpload, followed through its awaits.  At most one call per   *)
(* task stands at a time; calls for different tasks interleave.            *)
(***************************************************************************)
UploadFiles == {"", "a.jpg", "b.jpg"}   \* "" : e.target.files[0] is undefined

\* getDownloadURL(ref(storage, `tasks/${taskId}/${file.name}...`))
DownloadURL(taskId, file) == <<taskId, file>>

\* Mutant of SettledUploadingPhotoId: no reset when the call fails.
SettledUploadingPhotoId_KeptOnFailure(current, failed) ==
    IF failed THEN current ELSE NoUpload

\* finally { setUploadingPhotoId(null) }, on every way out of the try block
SettledUploadingPhotoId(current, failed) == NoUpload

InitUpload ==
    /\ variant \in Variants
    /\ uploadingPhotoId = NoUpload
    /\ photo = [t \in UploadTaskIds |-> <<>>]
    /\ uploads = [t \in UploadTaskIds |-> NotUploading("none")]
    /\ store = NoDoc /\ allTasks = NoDoc /\ breakdown = "idle" /\ strayCalls = {}
    /\ ViewsIdle
    /\ FinanceIdle
    /\ StatsIdle
    /\ LaterIdleBut("upload")

\* handlePhotoUpload(taskId, file) up to its first await.  part_000 returns
\* on a missing file; in index.tsx file.name throws inside the try block.
handlePhotoUploadStart(taskId, file) ==
    /\ uploads[taskId].stage = "idle"
    /\ variant = "part_000" => file # ""
    /\ IF file = ""
       THEN /\ uploadingPhotoId' = SettledUploadingPhotoId(taskId, TRUE)
            /\ uploads' = [uploads EXCEPT ![taskId] = NotUploading("failed")]
       ELSE /\ uploadingPhotoId' = taskId
            /\ uploads' = [uploads EXCEPT ![taskId] =
                              [stage |-> "uploadBytes", file |-> file, ended |-> "none"]]
    /\ UNCHANGED <<photo, notUploadVars>>

\* uploadBytes and getDownloadURL are fulfilled: on to updateDoc.
UploadBytesFulfilled(taskId) ==
    /\ uploads[taskId].stage = "uploadBytes"
    /\ uploads' = [uploads EXCEPT ![taskId].stage = "updateDoc"]
    /\ UNCHANGED <<uploadingPhotoId, photo, notUploadVars>>

\* uploadBytes or getDownloadURL is rejected: (catch,) finally.
UploadBytesRejected(taskId) ==
    /\ uploads[taskId].stage = "uploadBytes"
    /\ uploads' = [uploads EXCEPT ![taskId] = NotUploading("failed")]
    /\ uploadingPhotoId' = SettledUploadingPhotoId(uploadingPhotoId, TRUE)
    /\ UNCHANGED <<photo, notUploadVars>>

\* updateDoc(doc(db, 'tasks', taskId), {photo: downloadURL}) is fulfilled.
PhotoWriteFulfilled(taskId) ==
    /\ uploads[taskId].stage = "updateDoc"
    /\ photo' = [photo EXCEPT ![taskId] = DownloadURL(taskId, uploads[taskId].file)]
    /\ uploads' = [uploads EXCEPT ![taskId] = NotUploading("stored")]
    /\ uploadingPhotoId' = SettledUploadingPhotoId(uploadingPhotoId, FALSE)
    /\ UNCHANGED <<notUploadVars>>

\* That updateDoc is rejected: (catch,) finally.
PhotoWriteRejected(taskId) ==
    /\ uploads[taskId].stage = "updateDoc"
    /\ uploads' = [uploads EXCEPT ![taskId] = NotUploading("failed")]
    /\ uploadingPhotoId' = SettledUploadingPhotoId(uploadingPhotoId, TRUE)
    /\ UNCHANGED <<photo, notUploadVars>>

NextUpload ==
    \/ \E taskId \in UploadTaskIds, file \in UploadFiles : handlePhotoUploadStart(taskId, file)
    \/ \E taskId \in UploadTaskIds : UploadBytesFulfilled(taskId)
    \/ \E taskId \in UploadTaskIds : UploadBytesRejected(taskId)
    \/ \E taskId \in UploadTaskIds : PhotoWriteFulfilled(taskId)
    \/ \E taskId \in UploadTaskIds : PhotoWriteRejected(taskId)

SpecUpload == InitUpload /\ [][NextUpload]_vars

(***************************************************************************)
(* Claims about the photo upload (checked under SpecUpload)                *)
(***************************************************************************)
\* The call for task t goes past its first await in this step.
UploadBegins(t) == uploads[t].stage = "idle" /\ uploads'[t].stage # "idle"

\* The call for task t ends in this step.
UploadSettles(t) == uploads[t].stage # "idle" /\ uploads'[t].stage = "idle"

\* C21: a photo upload sets uploadingPhotoId to the id of its task when it
\* starts; when it settles, fulfilled or rejected, uploadingPhotoId is null;
\* a failed upload leaves every photo field as it was, and a photo field
\* only changes to the URL of the file uploaded for its task.
C21_UploadFlagAndPhoto ==
    [][\A t \in UploadTaskIds :
          /\ UploadBegins(t) => uploadingPhotoId' = t
          /\ UploadSettles(t) => uploadingPhotoId' = NoUpload
          /\ uploads'[t].ended = "failed" => photo'[t] = photo[t]
          /\ photo'[t] # photo[t] =>
                /\ uploads[t].stage = "updateDoc"
                /\ photo'[t] = DownloadURL(t, uploads[t].file)]_vars

\* One upload has failed at its write while the flag showed the other task,
\* whose upload is still under way; the flag is null; an earlier photo of
\* the failed task is kept.
C21_Witness ==
    /\ uploads[1].ended = "failed"
    /\ photo[1] = DownloadURL(1, "a.jpg")
    /\ uploads[2].stage = "updateDoc"
    /\ uploadingPhotoId = NoUpload

(***************************************************************************)
(* part_000: handleGetSuggestions of an admin session, followed through    *)
(* its await of the text-generation service.                               *)
(***************************************************************************)
MaxSuggestions == 2   \* longest list of one kind the service answers with

SuggestionTexts == {"Pulizia grondaie", "Controllo caldaia", "Verifica estintori"}

SuggestionResults ==
    [stagionali : SeqsUpTo(SuggestionTexts, MaxSuggestions),
     contestuali : SeqsUpTo(SuggestionTexts, MaxSuggestions)]

\* response.text: the JSON text of a result, or something JSON.parse rejects
\* (undefined, a truncated answer).
ResponseTexts ==
    [json : {TRUE}, value : SuggestionResults] \cup {[json |-> FALSE, value |-> NoSuggestions]}

\* JSON.parse(response.text): the value, or a SyntaxError
JSONParse(text) ==
    IF text.json THEN [threw |-> FALSE, value |-> text.value]
    ELSE [threw |-> TRUE, value |-> NoSuggestions]

ErrorSuggestions ==
    [stagionali |-> <<"Errore nel caricamento dei suggerimenti.">>, contestuali |-> <<>>]

\* Mutant of SuggestionsAfter: the catch block sets nothing.
SuggestionsAfter_NothingOnError(tried) ==
    IF tried.threw THEN NoSuggestions ELSE tried.value

\* The suggestions state after the try and catch blocks; tried is the
\* outcome of the try block: it threw, or reached setSuggestions(value).
SuggestionsAfter(tried) ==
    IF tried.threw THEN ErrorSuggestions ELSE tried.value

\* The handler has run to its end: catch (when the try block threw), then
\* finally; the error is logged and not thrown again.
GetSuggestionsEnds(tried) ==
    /\ suggestions' = SuggestionsAfter(tried)
    /\ isSuggesting' = FALSE
    /\ suggestCall' = NotSuggesting(tried.threw, "fulfilled")

InitSuggest ==
    /\ variant = "part_000"
    /\ SuggestIdle
    /\ LaterIdleBut("suggest")
    /\ store = NoDoc /\ allTasks = NoDoc /\ breakdown = "idle" /\ strayCalls = {}
    /\ ViewsIdle
    /\ FinanceIdle
    /\ StatsIdle

\* handleGetSuggestions() up to its await; the button is disabled while
\* isSuggesting.  Without an API key the GoogleGenAI constructor throws.
handleGetSuggestions(hasApiKey) ==
    /\ ~isSuggesting
    /\ modalState' = "suggestion"
    /\ IF hasApiKey
       THEN /\ isSuggesting' = TRUE
            /\ suggestions' = NoSuggestions
            /\ suggestCall' = [stage |-> "awaiting", failed |-> FALSE, promise |-> "pending"]
       ELSE GetSuggestionsEnds([threw |-> TRUE, value |-> NoSuggestions])
    /\ UNCHANGED notSuggestVars

\* generateContent is fulfilled with a response.
GenerateContentFulfilled(text) ==
    /\ suggestCall.stage = "awaiting"
    /\ GetSuggestionsEnds(JSONParse(text))
    /\ UNCHANGED <<modalState, notSuggestVars>>

\* generateContent is rejected.
GenerateContentRejected ==
    /\ suggestCall.stage = "awaiting"
    /\ GetSuggestionsEnds([threw |-> TRUE, value |-> NoSuggestions])
    /\ UNCHANGED <<modalState, notSuggestVars>>

\* SuggestionsModal.onClose
closeSuggestions ==
    /\ modalState = "suggestion"
    /\ modalState' = ""
    /\ UNCHANGED <<isSuggesting, suggestions, suggestCall, notSuggestVars>>

NextSuggest ==
    \/ \E hasApiKey \in BOOLEAN : handleGetSuggestions(hasApiKey)
    \/ \E text \in ResponseTexts : GenerateContentFulfilled(text)
    \/ GenerateContentRejected
    \/ closeSuggestions

SpecSuggest == InitSuggest /\ [][NextSuggest]_vars

(***************************************************************************)
(* Claims about the suggestion fetch (checked under SpecSuggest)           *)
(***************************************************************************)
\* C22: isSuggesting is set for as long as the call of the service is
\* pending and is clear once it has settled, fulfilled or rejected; after a
\* failed call the suggestions are the error-tagged result, and the promise
\* of the handler is never rejected.
C22_SuggestionsLoadingAndError ==
    /\ suggestCall.stage = "awaiting" => isSuggesting
    /\ suggestCall.stage = "idle" => ~isSuggesting
    /\ suggestCall.failed => suggestions = ErrorSuggestions
    /\ suggestCall.promise # "rejected"

\* A call of the service has failed and the handler has ended.
C22_Witness ==
    /\ suggestCall = NotSuggesting(TRUE, "fulfilled")
    /\ suggestions = ErrorSuggestions
    /\ ~isSuggesting

(***************************************************************************)
(* Claims about the local task state (checked under Spec)                  *)
(***************************************************************************)
\* C23: the locally held task state changes only when a snapshot is
\* delivered, and then it becomes that snapshot as a whole: the document as
\* the store holds it, or nothing when the store holds no such document.
\* No step that writes to the store changes the local state.
C23_LocalStateIsLastSnapshot ==
    [][allTasks' # allTasks =>
          /\ store' = store
          /\ allTasks' = (IF store.status = "live" THEN store ELSE NoDoc)]_vars

\* The session holds the snapshot delivered after a toggle, while the store
\* has moved on: the document has been deleted since.
C23_Witness ==
    /\ allTasks.status = "live"
    /\ allTasks.completed
    /\ store.status = "deleted"

(***************************************************************************)
(* index.tsx: who can reach the writes that create or edit a task.  The    *)
(* session of one user is followed from the dashboard through the task     *)
(* modal and the suggestions modal; the session holds a task of its list,  *)
(* so that the edit button of a TaskItem is there to press.                *)
(***************************************************************************)
\* onAuthStateChanged / handleDemoLogin: the users of the application
SessionUsers ==
    { [name |-> "Admin", role |-> "admin"], [name |-> "Angelo", role |-> "user"],
      [name |-> "Elias", role |-> "user"], [name |-> "Juan", role |-> "user"] }

\* Mutant of ShowsAddButton: the controls are there for every user.
ShowsAddButton_ForEveryone(r, name) == TRUE

\* The "+ Nuova Attivita" buttons: the one of AdminDashboard, and those of
\* the user dashboard, rendered when user.name !== 'Juan'.
ShowsAddButton(r, name) == r = "admin" \/ name # "Juan"

\* The suggest button is part of the task-actions-bar of the user dashboard.
ShowsSuggestButton(r, name) == r # "admin" /\ name # "Juan"

\* TaskModal.canAssignToOthers
canAssignToOthers(r, name) == r = "admin" \/ name = "Angelo" \/ name = "Elias"

\* TaskModal.assignableUsers
assignableUsers(r, name) ==
    IF r = "admin" \/ name = "Angelo" THEN ALL_USERNAMES
    ELSE IF name = "Elias" THEN << "Elias", "Juan" >>
    ELSE << >>

\* The owners of the tasks the session holds: those of the viewed user for
\* the admin, its own otherwise.
HeldOwners(r, name) == IF r = "admin" THEN Range(ALL_USERNAMES) ELSE {name}

\* The values TaskModal.assignedTo can have: its initial value, and the
\* options of the selector when that is rendered.
AssignedToValues(r, name, editing) ==
    IF editing # "new" THEN HeldOwners(r, name)
    ELSE (IF name = "Angelo" THEN {"Elias"}
          ELSE IF r = "admin" THEN Range(ALL_USERNAMES)
          ELSE {name})
         \cup (IF canAssignToOthers(r, name) THEN Range(assignableUsers(r, name)) ELSE {})

\* setAiSuggestions of handleFetchSuggestions
MockSuggestionLists ==
    [stagionali |-> << "Pulizia grondaie", "Controllo riscaldamento" >>,
     contestuali |-> << "Comprare vernice per ritocchi", "Controllare scorta lampadine" >>]

InitPermission ==
    /\ variant = "index"
    /\ \E u \in SessionUsers : userName = u.name /\ role = u.role
    /\ taskToEdit = ""
    /\ taskWrites = {}
    /\ SuggestIdle
    /\ LaterIdleBut("permission")
    /\ store = NoDoc /\ allTasks = NoDoc /\ breakdown = "idle" /\ strayCalls = {}
    /\ now = InitNow
    /\ tasks = <<>>
    /\ displayDate = now
    /\ displayedTasks = <<>>
    /\ zone = NoZoneChange
    /\ dueDate = 0
    /\ urgencyClass = ""
    /\ taskFilter = "da_fare"
    /\ apartmentTasks = <<>>
    /\ generalTasks = <<>>
    /\ FinanceIdle
    /\ StatsIdle

\* "+ Nuova Attivita": setModalState({type: 'task', data: {apartment}})
openNewTask ==
    /\ modalState = ""
    /\ ShowsAddButton(role, userName)
    /\ modalState' = "task"
    /\ taskToEdit' = "new"
    /\ UNCHANGED <<userName, taskWrites, isSuggesting, suggestions, notPermissionVars>>

\* The edit button of a TaskItem: setModalState({type: 'task', data: task})
openEditTask ==
    /\ modalState = ""
    /\ modalState' = "task"
    /\ taskToEdit' = "held"
    /\ UNCHANGED <<userName, taskWrites, isSuggesting, suggestions, notPermissionVars>>

\* onClose of the modals: setModalState({type: null})
closeModal ==
    /\ modalState # ""
    /\ modalState' = ""
    /\ taskToEdit' = ""
    /\ UNCHANGED <<userName, taskWrites, isSuggesting, suggestions, notPermissionVars>>

\* TaskModal.handleSubmit with a text, then handleSaveTask: updateDoc of the
\* edited task, else addDoc; the modal is closed.
TaskModalSave(assignedTo) ==
    /\ modalState = "task"
    /\ assignedTo \in AssignedToValues(role, userName, taskToEdit)
    /\ LET owner == IF canAssignToOthers(role, userName) THEN assignedTo ELSE userName
       IN  taskWrites' = taskWrites \cup
              {[call |-> IF taskToEdit = "held" THEN "updateDoc" ELSE "addDoc",
                owner |-> owner, via |-> "modal"]}
    /\ modalState' = ""
    /\ taskToEdit' = ""
    /\ UNCHANGED <<userName, isSuggesting, suggestions, notPermissionVars>>

\* A checklist button of the task modal, with a due date set, then
\* handleCreateChecklistTask: addDoc; the modal is closed.
ChecklistButton(assignedTo) ==
    /\ modalState = "task"
    /\ assignedTo \in AssignedToValues(role, userName, taskToEdit)
    /\ (role = "admin" \/ userName = "Elias") /\ assignedTo = "Juan" /\ taskToEdit = "new"
    /\ taskWrites' = taskWrites \cup
          {[call |-> "addDoc", owner |-> assignedTo, via |-> "checklist"]}
    /\ modalState' = ""
    /\ taskToEdit' = ""
    /\ UNCHANGED <<userName, isSuggesting, suggestions, notPermissionVars>>

\* handleFetchSuggestions, up to its timer
handleFetchSuggestions ==
    /\ modalState = ""
    /\ ShowsSuggestButton(role, userName)
    /\ isSuggesting' = TRUE
    /\ modalState' = "suggestion"
    /\ UNCHANGED <<userName, taskToEdit, taskWrites, suggestions, notPermissionVars>>

\* The timer of handleFetchSuggestions fires.
FetchSuggestionsTimeout ==
    /\ isSuggesting
    /\ suggestions' = MockSuggestionLists
    /\ isSuggesting' = FALSE
    /\ UNCHANGED <<userName, taskToEdit, taskWrites, modalState, notPermissionVars>>

\* "+" of a listed suggestion: onAdd = handleSaveTask({text}): addDoc for
\* the user of the session; the modal is closed.
AddSuggestion(text) ==
    /\ modalState = "suggestion"
    /\ ~isSuggesting
    /\ text \in Range(suggestions.stagionali) \cup Range(suggestions.contestuali)
    /\ taskWrites' = taskWrites \cup
          {[call |-> "addDoc", owner |-> userName, via |-> "suggestion"]}
    /\ modalState' = ""
    /\ UNCHANGED <<userName, taskToEdit, isSuggesting, suggestions, notPermissionVars>>

NextPermission ==
    \/ openNewTask
    \/ openEditTask
    \/ closeModal
    \/ \E assignedTo \in Range(ALL_USERNAMES) \cup {"Admin"} : TaskModalSave(assignedTo)
    \/ \E assignedTo \in Range(ALL_USERNAMES) : ChecklistButton(assignedTo)
    \/ handleFetchSuggestions
    \/ FetchSuggestionsTimeout
    \/ \E text \in MockSuggestions : AddSuggestion(text)

SpecPermission == InitPermission /\ [][NextPermission]_vars

(***************************************************************************)
(* Claims about the permissions (checked under SpecPermission)             *)
(***************************************************************************)
\* C24: the session of Juan never issues an addDoc to the tasks collection,
\* from the task modal, from a suggestion or from a checklist button.
C24_JuanNeverCreates ==
    userName = "Juan" => \A w \in taskWrites : w.call # "addDoc"

\* Juan has been through the task modal: an edit of a held task was saved.
C24_Witness ==
    /\ userName = "Juan"
    /\ [call |-> "updateDoc", owner |-> "Juan", via |-> "modal"] \in taskWrites
    /\ modalState = ""

(***************************************************************************)
(* Two sessions and one task document.  Each session holds the copy of the *)
(* document that its listener delivered last, and computes its writes from *)
(* that copy.  The document keeps date, completed and subtasks.            *)
(***************************************************************************)
MaxSessionSubtasks == 2   \* subtasks of the shared document
MaxSessionDay == 3        \* the sessions run over days 1..MaxSessionDay

Sessions == {"first", "second"}

\* handleToggleTask: the fields of its updateDoc.  part_000 writes
\* {completed, date: toDateString(new Date())}, index.tsx {completed,
\* completedAt}.
ToggleTaskFields(v, task, date) ==
    IF v = "part_000"
    THEN [names |-> {"completed", "date"}, completed |-> ~task.completed,
          date |-> toDateString(date)]
    ELSE [names |-> {"completed"}, completed |-> ~task.completed, date |-> task.date]

InitSessions ==
    /\ variant \in Variants
    /\ now = InitNow
    /\ remoteTask = [date |-> toDateString(now), completed |-> FALSE,
                     subtasks |-> [i \in 1..MaxSessionSubtasks |->
                                      [id |-> i, text |-> "", completed |-> FALSE]]]
    /\ sessionTask = [s \in Sessions |-> remoteTask]
    /\ lastToggled = [s \in Sessions |-> 0]
    /\ LaterIdleBut("sessions")
    /\ store = NoDoc /\ allTasks = NoDoc /\ breakdown = "idle" /\ strayCalls = {}
    /\ tasks = <<>>
    /\ displayDate = now
    /\ displayedTasks = <<>>
    /\ zone = NoZoneChange
    /\ dueDate = 0
    /\ urgencyClass = ""
    /\ GroupingIdle
    /\ FinanceIdle
    /\ StatsIdle

\* The listener of a session delivers the document.
onSnapshotIn(s) ==
    /\ sessionTask[s] # remoteTask
    /\ sessionTask' = [sessionTask EXCEPT ![s] = remoteTask]
    /\ lastToggled' = [lastToggled EXCEPT ![s] = 0]
    /\ UNCHANGED <<now, remoteTask, notSessionVars>>

\* handleToggleTask(id) in a session
handleToggleTaskIn(s) ==
    LET write == ToggleTaskFields(variant, sessionTask[s], now)
    IN  /\ remoteTask' = [remoteTask EXCEPT
                             !.completed = write.completed,
                             !.date = IF "date" \in write.names THEN write.date ELSE @]
        /\ UNCHANGED <<now, sessionTask, lastToggled, notSessionVars>>

\* handleToggleSubtask(taskId, subtaskId) in a session
handleToggleSubtaskIn(s, subtaskId) ==
    LET write == ToggleSubtaskWrite(variant, sessionTask[s], subtaskId)
    IN  /\ remoteTask' = [remoteTask EXCEPT
                             !.subtasks = write.fields.subtasks,
                             !.completed = IF "completed" \in write.names
                                           THEN write.fields.completed ELSE @]
        /\ lastToggled' = [lastToggled EXCEPT ![s] = subtaskId]
        /\ UNCHANGED <<now, sessionTask, notSessionVars>>

\* A day goes by.
NextDayBegins ==
    /\ toDateString(now) < MaxSessionDay
    /\ now' = now + HoursPerDay
    /\ UNCHANGED <<sessionVars, notSessionVars>>

NextSessions ==
    \/ \E s \in Sessions : onSnapshotIn(s)
    \/ \E s \in Sessions : handleToggleTaskIn(s)
    \/ \E s \in Sessions, subtaskId \in 1..MaxSessionSubtasks : handleToggleSubtaskIn(s, subtaskId)
    \/ NextDayBegins

SpecSessions == InitSessions /\ [][NextSessions]_vars

(***************************************************************************)
(* Claims about concurrent sessions and the date key (under SpecSessions)  *)
(***************************************************************************)
\* C25: when the two sessions hold the same snapshot and each has toggled a
\* different subtask of it, the stored subtasks are those of the snapshot
\* with both subtasks toggled.
C25_Stated_BothTogglesKept ==
    (/\ sessionTask["first"] = sessionTask["second"]
     /\ lastToggled["first"] # 0
     /\ lastToggled["second"] # 0
     /\ lastToggled["first"] # lastToggled["second"])
    => remoteTask.subtasks =
          ToggledSubtasks(ToggledSubtasks(sessionTask["first"].subtasks,
                                          lastToggled["first"]),
                          lastToggled["second"])

\* C26: the date of the task is the date key of the day it was created on,
\* whatever toggles of its completion have been written.
C26_Stated_ToggleKeepsDate ==
    remoteTask.date = toDateString(InitNow)

(***************************************************************************)
(* The task list of a non-admin session.  The variable tasks is the tasks  *)
(* collection as the store holds it; a snapshot is delivered whenever the  *)
(* collection changes, whoever changed it.                                 *)
(***************************************************************************)
MaxOwnTasks == 2   \* documents of the collection
MaxOwnDay == 2     \* their date keys range over 1..MaxOwnDay

OwnOwners == {"Juan", "Elias"}

OwnTaskLists ==
    {[i \in DOMAIN s |->
         [id |-> i, completed |-> s[i].completed, important |-> FALSE,
          date |-> s[i].date, dueDate |-> 0, apartment |-> "", owner |-> s[i].owner]] :
       s \in SeqsUpTo([completed : BOOLEAN, date : 1..MaxOwnDay, owner : OwnOwners],
                      MaxOwnTasks)}

\* Mutant of HeldByUser: the snapshot is held as it comes.
HeldByUser_Unfiltered(v, docs, name) ==
    IF v = "part_000" THEN docs ELSE SortByDateDesc(docs)

\* The tasks a non-admin session holds after the snapshot of docs:
\*   part_000  query(..., where("owner", "==", user.username)), grouped by
\*             owner, then allTasks[viewingUser] with viewingUser the user;
\*   index     fetchedTasks.filter(t => t.owner === user.name).sort(...)
HeldByUser(v, docs, name) ==
    IF v = "part_000"
    THEN LET queried == SelectSeq(docs, LAMBDA t : t.owner = name)
         IN  SelectSeq(queried, LAMBDA t : t.owner = name)
    ELSE SortByDateDesc(SelectSeq(docs, LAMBDA t : t.owner = name))

\* The tasks the dashboard lists: part_000 displayedTasks, index.tsx
\* filteredUserTasks of renderUserDashboard.
ShownOf(v, held, f, date) ==
    IF v = "part_000" THEN ComputeDisplayedTasks(held, date)
    ELSE FilterByCompletion(held, f)

InitOwn ==
    /\ variant \in Variants
    /\ now = InitNow
    /\ userName \in OwnOwners
    /\ role = "user"
    /\ tasks = <<>>
    /\ heldTasks = <<>>
    /\ shownTasks = <<>>
    /\ taskFilter = "da_fare"
    /\ taskToEdit = "" /\ taskWrites = {}
    /\ UploadIdle
    /\ SuggestIdle
    /\ SessionsIdle
    /\ TokensIdle
    /\ store = NoDoc /\ allTasks = NoDoc /\ breakdown = "idle" /\ strayCalls = {}
    /\ displayDate = now
    /\ displayedTasks = <<>>
    /\ zone = NoZoneChange
    /\ dueDate = 0
    /\ urgencyClass = ""
    /\ apartmentTasks = <<>>
    /\ generalTasks = <<>>
    /\ FinanceIdle
    /\ StatsIdle

\* The collection changes to docs and the listener of the session runs.
onSnapshotOwn(docs) ==
    /\ docs # tasks
    /\ tasks' = docs
    /\ heldTasks' = HeldByUser(variant, docs, userName)
    /\ shownTasks' = ShownOf(variant, heldTasks', taskFilter, displayDate)
    /\ UNCHANGED <<taskFilter, notOwnVars>>

\* index.tsx setUserTaskFilter(f), and the render that follows
setUserTaskFilter(f) ==
    /\ variant = "index"
    /\ f # taskFilter
    /\ taskFilter' = f
    /\ shownTasks' = ShownOf(variant, heldTasks, f, displayDate)
    /\ UNCHANGED <<tasks, heldTasks, notOwnVars>>

NextOwn ==
    \/ \E docs \in OwnTaskLists : onSnapshotOwn(docs)
    \/ \E f \in TaskFilters : setUserTaskFilter(f)

SpecOwn == InitOwn /\ [][NextOwn]_vars

(***************************************************************************)
(* Claims about the task list of a non-admin session (under SpecOwn)       *)
(***************************************************************************)
\* C27: the tasks a non-admin session holds, and those its dashboard lists,
\* are tasks of the collection whose owner is the user of the session.
C27_OnlyOwnTasks ==
    /\ \A i \in DOMAIN heldTasks :
          heldTasks[i].owner = userName /\ heldTasks[i] \in Range(tasks)
    /\ \A i \in DOMAIN shownTasks :
          shownTasks[i].owner = userName /\ shownTasks[i] \in Range(tasks)

\* The collection holds a task of the user and one of somebody else; the
\* session holds and lists the first.
C27_Witness ==
    /\ \E i \in DOMAIN tasks : tasks[i].owner # userName
    /\ Len(heldTasks) = 1
    /\ Len(shownTasks) = 1

(***************************************************************************)
(* A further claim about handleBreakdownTask (checked under Spec)          *)
(***************************************************************************)
\* The subtasks write of a handleBreakdownTask call is applied in this step.
BreakdownWriteStep ==
    BreakdownTimeout \/ \E n \in 1..MaxAiSubtasks : BreakdownDecomposed(n)

\* C28: when the stored task has at least one subtask, the subtasks write
\* of handleBreakdownTask leaves the stored subtasks as they are.
C28_Stated_BreakdownKeepsSubtasks ==
    [][(BreakdownWriteStep /\ store.subtasks # <<>>)
          => store'.subtasks = store.subtasks]_vars

(***************************************************************************)
(* The push tokens of one user: the registration that the client performs  *)
(* after login (part_000 requestNotificationPermission) on each device,    *)
(* and the runs of the cloud function sendNotificationOnNewTask            *)
(* (index.tsx), one per task created for the user.  Each step is one       *)
(* remote call; the steps of different calls interleave.                   *)
(***************************************************************************)
\* getToken(messaging, {vapidKey}): one token per device
Devices == {"tokenA", "tokenB"}

SendRuns == {"first", "second"}

\* result.error.code of a sendToDevice result; "" when there is no error
ErrorCodes ==
    {"", "messaging/invalid-registration-token",
     "messaging/registration-token-not-registered", "messaging/internal-error"}

SeqIncludesToken(s, t) == \E i \in DOMAIN s : s[i] = t

\* arrayUnion(fcmToken)
arrayUnion(tokens, t) == IF SeqIncludesToken(tokens, t) THEN tokens ELSE Append(tokens, t)

\* The tokens sendNotificationOnNewTask collects for removal out of a response.
TokensToRemove(tokens, results) ==
    {tokens[i] : i \in {j \in DOMAIN tokens :
                          results[j] \in {"messaging/invalid-registration-token",
                                          "messaging/registration-token-not-registered"}}}

NotRegistering == [stage |-> "idle", sawDoc |-> FALSE]
NotSending == [stage |-> "idle", tokens |-> <<>>, toRemove |-> {}]

InitTokens ==
    /\ fcmTokens = NoTokensDoc
    /\ registrations = [d \in Devices |-> NotRegistering]
    /\ sendRuns = [r \in SendRuns |-> NotSending]
    /\ registeredTokens = {}
    /\ failedTokens = {}
    /\ LaterIdleBut("tokens")
    /\ MutationsIdle
    /\ ViewsIdle
    /\ FinanceIdle
    /\ StatsIdle

\* requestNotificationPermission up to its write: getToken, getDoc(tokenRef)
RegistrationReadsDoc(d) ==
    /\ registrations[d].stage = "idle"
    /\ registrations' = [registrations EXCEPT ![d] =
                            [stage |-> "write", sawDoc |-> fcmTokens.exists]]
    /\ UNCHANGED <<fcmTokens, sendRuns, registeredTokens, failedTokens, notTokenVars>>

\* ... and its write: updateDoc with arrayUnion when the document was seen
\* (rejected when it does not exist), else setDoc.
RegistrationWrites(d) ==
    /\ registrations[d].stage = "write"
    /\ fcmTokens' = IF registrations[d].sawDoc
                    THEN (IF fcmTokens.exists
                          THEN TokensDoc(arrayUnion(fcmTokens.tokens, d))
                          ELSE fcmTokens)
                    ELSE TokensDoc(<<d>>)
    /\ registeredTokens' = IF registrations[d].sawDoc /\ ~fcmTokens.exists
                           THEN registeredTokens
                           ELSE registeredTokens \cup {d}
    /\ registrations' = [registrations EXCEPT ![d] = NotRegistering]
    /\ UNCHANGED <<sendRuns, failedTokens, notTokenVars>>

\* sendNotificationOnNewTask up to sendToDevice: the tokens document is
\* read; the run returns (nothing changes) when it does not exist or holds
\* no token.
SendReadsTokens(r) ==
    /\ sendRuns[r].stage = "idle"
    /\ fcmTokens.exists /\ fcmTokens.tokens # <<>>
    /\ sendRuns' = [sendRuns EXCEPT ![r] =
                       [stage |-> "send", tokens |-> fcmTokens.tokens, toRemove |-> {}]]
    /\ UNCHANGED <<fcmTokens, registrations, registeredTokens, failedTokens, notTokenVars>>

\* sendToDevice answers with one result per token; the run ends unless a
\* token is to be removed.
SendGetsResponse(r, results) ==
    /\ sendRuns[r].stage = "send"
    /\ DOMAIN results = DOMAIN sendRuns[r].tokens
    /\ LET tokensToRemove == TokensToRemove(sendRuns[r].tokens, results)
       IN  /\ failedTokens' = failedTokens \cup tokensToRemove
           /\ sendRuns' = [sendRuns EXCEPT ![r] =
                              IF tokensToRemove # {}
                              THEN [stage |-> "update", tokens |-> sendRuns[r].tokens,
                                    toRemove |-> tokensToRemove]
                              ELSE NotSending]
    /\ UNCHANGED <<fcmTokens, registrations, registeredTokens, notTokenVars>>

\* tokensDoc.ref.update({tokens: tokens.filter(t => !tokensToRemove.includes(t))})
SendUpdatesTokens(r) ==
    /\ sendRuns[r].stage = "update"
    /\ fcmTokens' = IF fcmTokens.exists
                    THEN TokensDoc(SelectSeq(sendRuns[r].tokens,
                                             LAMBDA t : t \notin sendRuns[r].toRemove))
                    ELSE fcmTokens
    /\ sendRuns' = [sendRuns EXCEPT ![r] = NotSending]
    /\ UNCHANGED <<registrations, registeredTokens, failedTokens, notTokenVars>>

NextTokens ==
    \/ \E d \in Devices : RegistrationReadsDoc(d)
    \/ \E d \in Devices : RegistrationWrites(d)
    \/ \E r \in SendRuns : SendReadsTokens(r)
    \/ \E r \in SendRuns, results \in SeqsUpTo(ErrorCodes, Cardinality(Devices)) :
          SendGetsResponse(r, results)
    \/ \E r \in SendRuns : SendUpdatesTokens(r)

SpecTokens == InitTokens /\ [][NextTokens]_vars

(***************************************************************************)
(* Claims about the push tokens (checked under SpecTokens)                 *)
(***************************************************************************)
\* C30: a token whose registration has been written is in the document of
\* the user, unless a send to it failed as invalid or not registered.
C30_Stated_NoTokenLost ==
    \A t \in registeredTokens \ failedTokens :
        fcmTokens.exists /\ SeqIncludesToken(fcmTokens.tokens, t)

====
